---- MODULE Spec2Model ----
(***************************************************************************)
(* Model of the frame-facing half of AtlasEngine (AtlasEngine.cpp): the    *)
(* per-frame invalidation, scrolling, line staging and text shaping.       *)
(*                                                                         *)
(* Conventions.  Buffers and vectors are sequences, so the element at      *)
(* source index i is element i+1 here; coordinates and glyph indices keep  *)
(* the source's 0-based values.  f32 quantities (advances, DIP sizes) are  *)
(* exact integers.                                                         *)
(* An access outside a buffer is undefined behaviour: the model either     *)
(* ends the process (crashed) or lets the access fall into memory that is  *)
(* not part of the modelled state, and records it in oobAccess.            *)
(***************************************************************************)
EXTENDS Integers, Sequences, FiniteSets, TLC

VARIABLES
    service,                  \* what the Font Shaping Service may answer: "any" |
                              \* "base" | "scarce" | "missing" | "stalling"
    phase,                    \* caller protocol: "idle" | "painting"; "hung" once a call
                              \* has entered a loop it never leaves
    frames,                   \* number of StartPaint calls so far
    calls,                    \* paint calls in the current frame
    crashed,                  \* the process ended (access violation / fail-fast)
    oobAccess,                \* some access fell outside a buffer
    lastCall,                 \* [name, hr, y] of the last frame-facing call; y is the row
                              \* index it addressed the Row Store or the bitmap with, or -1
    apiS,                     \* _api.s, the proposed settings snapshot
    pS,                       \* _p.s, the committed settings snapshot
    cellSizeDIP,              \* _p.d.font.cellSizeDIP
    invalidatedRows,          \* _api.invalidatedRows
    invalidatedCursorArea,    \* _api.invalidatedCursorArea
    scrollOffset,             \* _api.scrollOffset
    dirtyRect,                \* _p.dirtyRect (== _api.dirtyRect after StartPaint)
    cursorRect,               \* _p.cursorRect
    pScrollOffset,            \* _p.scrollOffset
    rows,                     \* _p.rows
    backgroundBitmap,         \* _p.backgroundBitmap
    bufferLine,               \* _api.bufferLine
    bufferLineColumn,         \* _api.bufferLineColumn
    colorsForeground,         \* _api.colorsForeground
    currentColor,             \* _api.currentColor
    attributes,               \* _api.attributes
    lastPaintBufferLineCoord, \* _api.lastPaintBufferLineCoord
    replacementCharacter,     \* _api.replacementCharacter{FontFace,GlyphIndex,LookedUp}
    glyphIndicesSize,         \* _api.glyphIndices.size() (== _api.glyphProps.size())
    lastFlush,                \* history: what the last non-empty flush did
    lastScroll,               \* history: rows and bitmap just before the scroll step
    roundTrip,                \* history: progress of a scroll +k / -k pair
    lastStart,                \* history: what the last StartPaint started from
    bufferLineOrigin,         \* history: the row and style key each staged code unit
                              \* was staged under
    lineCalls,                \* history: start and past-the-end column of each
                              \* PaintBufferLine that staged into the current line
    replacementFailed,        \* history: a resolution of U+FFFD has ended without a glyph
    lastArgs                  \* history: the arguments of the last paint call that returned

vars == <<service, phase, frames, calls, crashed, oobAccess, lastCall, apiS, pS, cellSizeDIP,
          invalidatedRows, invalidatedCursorArea, scrollOffset, dirtyRect, cursorRect,
          pScrollOffset, rows, backgroundBitmap, bufferLine, bufferLineColumn,
          colorsForeground, currentColor, attributes, lastPaintBufferLineCoord,
          replacementCharacter, glyphIndicesSize, lastFlush, lastScroll, roundTrip,
          lastStart, bufferLineOrigin, lineCalls, replacementFailed, lastArgs>>

\* ------------------------------------------------------------------ bounds
MaxFrames == 3
MaxCalls == 3
MaxGlyphs == 3
MaxLine == 2

\* ----------------------------------------------------------------- helpers
Min(a, b) == IF a < b THEN a ELSE b
Max(a, b) == IF a > b THEN a ELSE b

\* clamp(val, min, max): val < min ? min : (max < val ? max : val)
Clamp(val, lo, hi) == IF val < lo THEN lo ELSE IF hi < val THEN hi ELSE val

RECURSIVE SumSeq(_)
SumSeq(s) == IF s = <<>> THEN 0 ELSE Head(s) + SumSeq(Tail(s))

Repeat(v, n) == [i \in 1..n |-> v]

\* ---------------------------------------------------------------- settings
\* Sub-objects are copy-on-write: a write yields a new generation, and the
\* snapshots are compared by generation.  Only equality of generations is
\* ever observed, so a generation is kept relative to the committed one.
Font1 == [dpi |-> 96, cellSize |-> [x |-> 2, y |-> 3], fontSizeInDIP |-> 4]
Font2 == [dpi |-> 192, cellSize |-> [x |-> 6, y |-> 4], fontSizeInDIP |-> 6]
Fonts == {Font1, Font2}
CellCounts == {[x |-> 2, y |-> 3], [x |-> 2, y |-> 2]}
LineCellCount == [x |-> 3, y |-> 2]
\* The render target is a swap chain handle; none of the targets is a window.
Targets == {0, 1}
USER_DEFAULT_SCREEN_DPI == 96

DefaultCursor ==
    [cursorColor |-> "INVALID_COLOR", cursorType |-> "Legacy", heightPercentage |-> 20]

\* The snapshot of a freshly constructed engine: nothing is configured yet.
InitialSettings ==
    [generation |-> 0,
     font |-> [generation |-> 0, dpi |-> 96, cellSize |-> [x |-> 0, y |-> 0],
               fontSizeInDIP |-> 0],
     cellCount |-> [x |-> 0, y |-> 0],
     cursor |-> DefaultCursor,
     misc |-> [backgroundColor |-> 0],
     target |-> 0]

\* The renderer configures font and window size before it paints a frame.
ConfiguredSettings ==
    {[InitialSettings EXCEPT !.generation = 1, !.font = [generation |-> 1] @@ f,
                             !.cellCount = c] :
        f \in Fonts, c \in CellCounts \cup {LineCellCount}}

invalidatedRowsNone == [x |-> 65535, y |-> 0]
invalidatedRowsAll == [x |-> 0, y |-> 65535]
invalidatedAreaNone == [left |-> 65535, top |-> 65535, right |-> 0, bottom |-> 0]
EmptyRect == [left |-> 0, top |-> 0, right |-> 0, bottom |-> 0]

\* -------------------------------------------------------------------- rows
\* A default-constructed ShapedRow.
\* The field partial is history, not program state: a flush that failed has
\* appended to the row since the row was last cleared.  It travels with the
\* row when the row is relocated.
EmptyRow ==
    [mappings |-> <<>>, glyphIndices |-> <<>>, glyphAdvances |-> <<>>,
     glyphOffsets |-> <<>>, colors |-> <<>>, gridLineRanges |-> <<>>,
     selectionFrom |-> 0, selectionTo |-> 0, top |-> 0, bottom |-> 0,
     partial |-> FALSE]

\* ShapedRow::clear(y, cellHeight): empties the sequences, resets the bounds.
ClearRow(y, cellHeight) ==
    [EmptyRow EXCEPT !.top = y * cellHeight, !.bottom = (y + 1) * cellHeight]

\* A row after std::move took its content: the vectors are left empty.
MovedFromRow(r) ==
    [r EXCEPT !.mappings = <<>>, !.glyphIndices = <<>>, !.glyphAdvances = <<>>,
              !.glyphOffsets = <<>>, !.colors = <<>>, !.gridLineRanges = <<>>]

ShiftRow_Down(r, deltaPx) ==
    [r EXCEPT !.top = @ + (IF deltaPx < 0 THEN -deltaPx ELSE deltaPx),
              !.bottom = @ + (IF deltaPx < 0 THEN -deltaPx ELSE deltaPx)]
ShiftRow(r, deltaPx) == [r EXCEPT !.top = @ + deltaPx, !.bottom = @ + deltaPx]

NoFlush == [ran |-> FALSE]
NoScroll == [ran |-> FALSE]
NoRoundTrip == [stage |-> 0]
NoStart == [ran |-> FALSE]
NoArgs == [name |-> "none"]
Args(name, in) == [name |-> name, in |-> in]

\* ------------------------------------------------ the Font Shaping Service
\* The service is a black box: each query answers with any value its
\* interface allows (DirectWrite: a mapped length and a run length of at
\* least 1, a cluster map that starts at 0 and never decreases, at least one
\* glyph per cluster), or with a failure.
\* With service = "base" the base font covers every text as simple text, and
\* a query either says so or fails.  With service = "missing" no font covers
\* the staged text.  With service = "scarce" the base font covers every text
\* as one complex run of one glyph per code unit, and the glyph query may
\* report that the capacity it was given is insufficient; with the other
\* services the capacity always suffices.  With service = "stalling" the
\* service answers as with "any" and may also answer a mapping query with a
\* mapped length of 0 and a complexity query with a run length of 0.
Faces == {1}
ReplacementGlyphIds == {7}
NaturalAdvances == {5}
ServiceOffset == [advanceOffset |-> 1, ascenderOffset |-> 1]
ZeroOffset == [advanceOffset |-> 0, ascenderOffset |-> 0]
ColorValues == {0, 1, 2}

MapCharactersAnswers(textLength) ==
    {[hr |-> "E_FAIL", mappedLength |-> 0, scale |-> 1, mappedFontFace |-> 0]} \cup
    {[hr |-> "S_OK", mappedLength |-> n, scale |-> 1, mappedFontFace |-> f] :
        n \in IF service \in {"base", "scarce", "missing"} THEN {textLength}
              ELSE 1..textLength,
        f \in IF service \in {"base", "scarce"} THEN Faces
              ELSE IF service = "missing" THEN {0} ELSE {0} \cup Faces}
    \cup (IF service = "stalling"
          THEN {[hr |-> "S_OK", mappedLength |-> 0, scale |-> 1, mappedFontFace |-> f] :
                   f \in Faces}
          ELSE {})

GetTextComplexityAnswers(textLength) ==
    {[hr |-> "E_FAIL", isTextSimple |-> FALSE, complexityLength |-> 0, glyph |-> 0]} \cup
    IF service = "base"
    THEN {[hr |-> "S_OK", isTextSimple |-> TRUE, complexityLength |-> textLength,
           glyph |-> 1]}
    ELSE IF service = "scarce"
    THEN {[hr |-> "S_OK", isTextSimple |-> FALSE, complexityLength |-> textLength,
           glyph |-> 0]}
    ELSE {[hr |-> "S_OK", isTextSimple |-> TRUE, complexityLength |-> n, glyph |-> 1] :
                   n \in 1..textLength}
         \cup {[hr |-> "S_OK", isTextSimple |-> FALSE, complexityLength |-> n, glyph |-> 0] :
                   n \in 1..textLength}
         \cup (IF service = "stalling"
               THEN {[hr |-> "S_OK", isTextSimple |-> TRUE, complexityLength |-> 0,
                      glyph |-> 1]}
               ELSE {})

\* AnalyzeScript reports the runs of [idx, idx + length): one run, or one run
\* per code unit.
AnalyzeScriptAnswers(idx, length) ==
    {[hr |-> "E_FAIL", results |-> <<>>],
     [hr |-> "S_OK", results |-> <<[textPosition |-> idx, textLength |-> length]>>]} \cup
    IF service = "scarce" THEN {}
    ELSE {[hr |-> "S_OK",
           results |-> [i \in 1..length |-> [textPosition |-> idx + i - 1,
                                             textLength |-> 1]]]}

ClusterMaps(textLength) ==
    {m \in [1..textLength -> 0..textLength] :
        /\ m[1] = 0
        /\ \A i \in 1..(textLength - 1) : m[i] <= m[i + 1]}

\* An answer of S_OK never reports more glyphs than maxGlyphCount.
GetGlyphsAnswers(textLength, maxGlyphCount) ==
    {[hr |-> "E_FAIL", clusterMap |-> <<>>, actualGlyphCount |-> 0, glyph |-> 0]} \cup
    (IF service = "scarce"
     THEN {[hr |-> "ERROR_INSUFFICIENT_BUFFER", clusterMap |-> <<>>, actualGlyphCount |-> 0,
            glyph |-> 0]}
     ELSE {}) \cup
    {[hr |-> "S_OK", clusterMap |-> m, actualGlyphCount |-> c, glyph |-> 2] :
        m \in IF service = "scarce" THEN {[i \in 1..textLength |-> i - 1]}
              ELSE ClusterMaps(textLength),
        c \in IF service = "scarce" THEN {textLength} \cap 1..maxGlyphCount
              ELSE 1..Min(textLength + 1, maxGlyphCount)}

GlyphsAnswerOk(a, textLength) ==
    a.hr = "S_OK" => a.clusterMap[textLength] < a.actualGlyphCount

GetGlyphPlacementsAnswers(glyphCount) ==
    {[hr |-> "E_FAIL", glyphAdvances |-> <<>>, glyphOffsets |-> <<>>]} \cup
    {[hr |-> "S_OK", glyphAdvances |-> [j \in 1..glyphCount |-> n + j - 1],
      glyphOffsets |-> Repeat(ServiceOffset, glyphCount)] : n \in NaturalAdvances}

\* Resolving U+FFFD: the mapping answer, then the glyph-index query.
GetGlyphIndicesAnswers ==
    {[hr |-> "E_FAIL", glyphIndex |-> 0]} \cup
    {[hr |-> "S_OK", glyphIndex |-> g] : g \in ReplacementGlyphIds}

\* ------------------------------------------------------- _flushBufferLine
\* The state a flush works on: the row it appends to, the replacement
\* cache, whether a read fell outside colorsForeground, and the history log.
Outcome(status, st) == [st EXCEPT !.status = status]

\* History: the service answered a query of the flush with a.
Answered(st, a) == [st EXCEPT !.answers = Append(@, a)]

Column(i) == bufferLineColumn[i + 1]

\* _api.colorsForeground[col]: a read past the buffer yields any value.
ForegroundAt(col) ==
    IF col < Len(colorsForeground) THEN {colorsForeground[col + 1]} ELSE ColorValues

AppendGlyph(row, glyphIndex, glyphAdvance, glyphOffset, fg) ==
    [row EXCEPT !.glyphIndices = Append(@, glyphIndex),
                !.glyphAdvances = Append(@, glyphAdvance),
                !.glyphOffsets = Append(@, glyphOffset),
                !.colors = Append(@, fg)]

AppendMapping(row, fontFace, fontEmSize, glyphsFrom, glyphsTo) ==
    [row EXCEPT !.mappings = Append(@, [fontFace |-> fontFace, fontEmSize |-> fontEmSize,
                                        glyphsFrom |-> glyphsFrom, glyphsTo |-> glyphsTo])]

LogEntry(kind, idx, len, g0, g1, clusterMap) ==
    [kind |-> kind, idx |-> idx, len |-> len, g0 |-> g0, g1 |-> g1,
     clusterMap |-> clusterMap]

SimpleAdvance_PerGlyph(col1, col2) == cellSizeDIP.x
SimpleAdvance_OneCellAtMost(col1, col2) == Min(col2 - col1, 1) * cellSizeDIP.x
SimpleAdvance(col1, col2) == (col2 - col1) * cellSizeDIP.x

\* The loop of lines 524-534 from code unit i on.
RECURSIVE MapSimple(_, _, _, _, _)
MapSimple(idx, i, complexityLength, glyph, st) ==
    IF i >= complexityLength THEN {st}
    ELSE LET col1 == Column(idx + i)
             col2 == Column(idx + i + 1)
         IN UNION {MapSimple(idx, i + 1, complexityLength, glyph,
                       [st EXCEPT !.row = AppendGlyph(@, glyph, SimpleAdvance(col1, col2),
                                                      ZeroOffset, fg),
                                  !.oob = @ \/ col1 >= Len(colorsForeground)]) :
                   fg \in ForegroundAt(col1)}

CorrectedAdvances_Natural(adv, prevCluster, nextCluster, expectedAdvance) == adv

\* _api.glyphAdvances[nextCluster - 1] += expectedAdvance - actualAdvance
CorrectedAdvances(adv, prevCluster, nextCluster, expectedAdvance) ==
    LET actualAdvance == SumSeq(SubSeq(adv, prevCluster + 1, nextCluster))
    IN [adv EXCEPT ![nextCluster] = @ + expectedAdvance - actualAdvance]

\* The cluster loop of lines 709-733; cm is the cluster map with the
\* sentinel cm[textLength] = actualGlyphCount appended (line 704).
RECURSIVE ClusterLoop(_, _, _, _, _, _)
ClusterLoop(a, cm, i, prevCluster, beg, acc) ==
    IF i > a.textLength THEN {acc}
    ELSE LET nextCluster == cm[i + 1]
         IN IF prevCluster = nextCluster
            THEN ClusterLoop(a, cm, i + 1, prevCluster, beg, acc)
            ELSE LET col1 == Column(a.textPosition + beg)
                     col2 == Column(a.textPosition + i)
                     expectedAdvance == (col2 - col1) * cellSizeDIP.x
                 IN UNION {ClusterLoop(a, cm, i + 1, nextCluster, i,
                               [glyphAdvances |-> CorrectedAdvances(acc.glyphAdvances,
                                                    prevCluster, nextCluster, expectedAdvance),
                                colors |-> acc.colors \o Repeat(fg, nextCluster - prevCluster),
                                oob |-> acc.oob \/ col1 >= Len(colorsForeground)]) :
                           fg \in ForegroundAt(col1)}

AppendShaped_NoColors(row, glyph, actualGlyphCount, glyphAdvances, glyphOffsets, colors) ==
    [row EXCEPT !.glyphIndices = @ \o Repeat(glyph, actualGlyphCount),
                !.glyphAdvances = @ \o SubSeq(glyphAdvances, 1, actualGlyphCount),
                !.glyphOffsets = @ \o SubSeq(glyphOffsets, 1, actualGlyphCount)]

AppendShaped(row, glyph, actualGlyphCount, glyphAdvances, glyphOffsets, colors) ==
    [row EXCEPT !.colors = @ \o colors,
                !.glyphIndices = @ \o Repeat(glyph, actualGlyphCount),
                !.glyphAdvances = @ \o SubSeq(glyphAdvances, 1, actualGlyphCount),
                !.glyphOffsets = @ \o SubSeq(glyphOffsets, 1, actualGlyphCount)]

\* size = size + (size >> 1)
GrowSize(size) == size + size \div 2

GetGlyphsRetryLimit == 8

MayRetry_Once_More(hr, retry) ==
    hr = "ERROR_INSUFFICIENT_BUFFER" /\ retry < GetGlyphsRetryLimit

\* Line 657, with retry the value before the increment.
MayRetry(hr, retry) ==
    hr = "ERROR_INSUFFICIENT_BUFFER" /\ retry + 1 < GetGlyphsRetryLimit

\* The loop of lines 636-671: the answer it ends with, the capacity it
\* leaves and, as history, the capacity of each query it made.
\* Expects(size > old) ends the process when the capacity cannot grow.
RECURSIVE GetGlyphsLoop(_, _, _)
GetGlyphsLoop(textLength, retry, size) ==
    UNION {
        IF MayRetry(g.hr, retry)
        THEN IF GrowSize(size) > size
             THEN {[r EXCEPT !.sizes = <<size>> \o @] :
                      r \in GetGlyphsLoop(textLength, retry + 1, GrowSize(size))}
             ELSE {[g |-> g, size |-> size, sizes |-> <<size>>, failFast |-> TRUE]}
        ELSE {[g |-> g, size |-> size, sizes |-> <<size>>, failFast |-> FALSE]}
        : g \in {x \in GetGlyphsAnswers(textLength, size) : GlyphsAnswerOk(x, textLength)}}

\* What the loop did for one analysis result: history of the flush.
QueryRecord(a, sizeBefore, q) ==
    [idx |-> a.textPosition, sizes |-> q.sizes, hr |-> q.g.hr]

\* One analysis result of _mapComplex (the body of the loop of line 603).
MapComplexRun(a, st0) ==
    UNION {
      LET g == q.g
          st == [st0 EXCEPT !.size = q.size,
                            !.queries = Append(@, QueryRecord(a, st0.size, q)),
                            !.answers = Append(@, g)]
      IN
        IF q.failFast THEN {Outcome("crash", st)}
        ELSE IF g.hr # "S_OK" THEN {Outcome("fail", st)}
        ELSE UNION {
            IF p.hr # "S_OK" THEN {Outcome("fail", Answered(st, p))}
            ELSE {[Answered(st, p) EXCEPT
                      !.row = AppendShaped(@, g.glyph, g.actualGlyphCount, c.glyphAdvances,
                                           p.glyphOffsets, c.colors),
                      !.oob = @ \/ c.oob,
                      !.log = Append(@, LogEntry("complex", a.textPosition, a.textLength,
                                         Len(st.row.glyphIndices),
                                         Len(st.row.glyphIndices) + g.actualGlyphCount,
                                         g.clusterMap))] :
                  c \in ClusterLoop(a, Append(g.clusterMap, g.actualGlyphCount), 1,
                                    g.clusterMap[1], 0,
                                    [glyphAdvances |-> p.glyphAdvances, colors |-> <<>>,
                                     oob |-> FALSE])}
            : p \in GetGlyphPlacementsAnswers(g.actualGlyphCount)}
      : q \in GetGlyphsLoop(a.textLength, 0, st0.size)}

RECURSIVE MapComplexRuns(_, _)
MapComplexRuns(results, st) ==
    IF results = <<>> THEN {st}
    ELSE UNION {IF o.status = "ok" THEN MapComplexRuns(Tail(results), o) ELSE {o} :
                o \in MapComplexRun(Head(results), st)}

\* _mapComplex
MapComplex(idx, length, st) ==
    UNION {IF a.hr # "S_OK" THEN {Outcome("fail", Answered(st, a))}
           ELSE MapComplexRuns(a.results, Answered(st, a)) :
           a \in AnalyzeScriptAnswers(idx, length)}

\* Lines 743-764: resolve the replacement character once.  A mapped length
\* of 1 with no font face makes line 754 call through a null pointer.
LookUpReplacement_CachedAsNotdef(st0) ==
    IF st0.repl.LookedUp THEN {[st0 EXCEPT !.repl.GlyphIndex = 0]}
    ELSE {[st0 EXCEPT !.lookups = @ + 1,
                      !.repl = [FontFace |-> f, GlyphIndex |-> g, LookedUp |-> TRUE]] :
             f \in Faces, g \in ReplacementGlyphIds}

LookUpReplacement_RetriesFailure(st0) ==
    IF st0.repl.FontFace # 0 THEN {st0}
    ELSE {[st0 EXCEPT !.lookups = @ + 1, !.failed = TRUE,
                      !.repl = [FontFace |-> 0, GlyphIndex |-> 0, LookedUp |-> TRUE]]}

\* The answers to the mapping query for U+FFFD: those for a text of length
\* 1, a mapped length of 0, and a font face even where none covers the
\* staged text.
ReplacementAnswers ==
    MapCharactersAnswers(1)
      \cup {[hr |-> "S_OK", mappedLength |-> 0, scale |-> 1, mappedFontFace |-> f] :
               f \in {0} \cup Faces}
      \cup {[hr |-> "S_OK", mappedLength |-> 1, scale |-> 1, mappedFontFace |-> f] :
               f \in IF service = "missing" THEN Faces ELSE {}}

Unresolved(st) ==
    [st EXCEPT !.repl = [FontFace |-> 0, GlyphIndex |-> 0, LookedUp |-> TRUE],
               !.failed = TRUE]

LookUpReplacement(st0) ==
    IF st0.repl.LookedUp THEN {st0}
    ELSE LET st == [st0 EXCEPT !.lookups = @ + 1] IN
      UNION {
        IF m.hr # "S_OK" THEN {Outcome("fail", st)}
        ELSE IF m.mappedLength = 1 /\ m.mappedFontFace = 0
             THEN {Outcome("crash", st), Unresolved(st)}
        ELSE IF m.mappedLength = 1
             THEN {IF q.hr = "S_OK"
                   THEN [st EXCEPT !.repl = [FontFace |-> m.mappedFontFace,
                                             GlyphIndex |-> q.glyphIndex,
                                             LookedUp |-> TRUE]]
                   ELSE Unresolved(st) :
                   q \in GetGlyphIndicesAnswers}
        ELSE {Unresolved(st)}
        : m \in ReplacementAnswers}

ForegroundRange_FirstColumn(col0, col1) ==
    {Repeat(fg, Max(0, col1 - col0)) : fg \in ForegroundAt(col0)}

\* colorsForeground[col0 .. col1): every sequence the reads can yield.
RECURSIVE ForegroundRange(_, _)
ForegroundRange(col0, col1) ==
    IF col0 >= col1 THEN {<<>>}
    ELSE {<<fg>> \o rest : fg \in ForegroundAt(col0), rest \in ForegroundRange(col0 + 1, col1)}

\* Lines 766-777.
EmitReplacement(from, to, st) ==
    IF st.repl.FontFace = 0
    THEN {[st EXCEPT !.log = Append(@, LogEntry("unresolved", from, to - from,
                                       Len(st.row.glyphIndices), Len(st.row.glyphIndices),
                                       <<>>))]}
    ELSE LET initialIndicesCount == Len(st.row.glyphIndices)
             col0 == Column(from)
             col1 == Column(to)
             cols == col1 - col0
         IN IF cols < 0 THEN {Outcome("fail", st)}   \* insert of a huge count throws
            ELSE {[st EXCEPT
                      !.row = AppendMapping(
                                 [@ EXCEPT
                                     !.glyphIndices = @ \o Repeat(st.repl.GlyphIndex, cols),
                                     !.glyphAdvances = @ \o Repeat(cellSizeDIP.x, cols),
                                     !.glyphOffsets = @ \o Repeat(ZeroOffset, cols),
                                     !.colors = @ \o c],
                                 st.repl.FontFace, pS.font.fontSizeInDIP \div 2,
                                 initialIndicesCount, initialIndicesCount + cols),
                      !.oob = @ \/ col1 > Len(colorsForeground),
                      !.log = Append(@, LogEntry("replacement", from, to - from,
                                         initialIndicesCount, initialIndicesCount + cols,
                                         <<>>))] :
                  c \in ForegroundRange(col0, col1)}

\* _mapReplacementCharacter
MapReplacementCharacter(from, to, st) ==
    UNION {IF o.status = "ok" THEN EmitReplacement(from, to, o)
           ELSE IF o.status = "crash"
           THEN {[o EXCEPT !.log = Append(@, LogEntry("unresolved", from, to - from,
                                              Len(o.row.glyphIndices),
                                              Len(o.row.glyphIndices), <<>>))]}
           ELSE {o} :
           o \in LookUpReplacement(st)}

\* The inner loop of lines 516-540.
RECURSIVE MapPrefix(_, _, _)
MapPrefix(idx, mappedEnd, st) ==
    IF idx >= mappedEnd THEN {st}
    ELSE UNION {
        IF a.hr # "S_OK" THEN {Outcome("fail", Answered(st, a))}
        ELSE IF a.complexityLength = 0 THEN {Outcome("hang", Answered(st, a))}
        ELSE IF a.isTextSimple
        THEN UNION {MapPrefix(idx + a.complexityLength, mappedEnd,
                        [o EXCEPT !.log = Append(@, LogEntry("simple", idx,
                                               a.complexityLength,
                                               Len(st.row.glyphIndices),
                                               Len(o.row.glyphIndices), <<>>))]) :
                    o \in MapSimple(idx, 0, a.complexityLength, a.glyph,
                                    Answered(st, a))}
        ELSE UNION {IF o.status = "ok"
                    THEN MapPrefix(idx + a.complexityLength, mappedEnd, o)
                    ELSE {o} :
                    o \in MapComplex(idx, a.complexityLength, Answered(st, a))}
        : a \in GetTextComplexityAnswers(mappedEnd - idx)}

ClosePrefix_FromZero(row, mappedFontFace, scale, initialIndicesCount) ==
    LET indicesCount == Len(row.glyphIndices)
    IN IF indicesCount > initialIndicesCount
       THEN AppendMapping(row, mappedFontFace, pS.font.fontSizeInDIP * scale, 0, indicesCount)
       ELSE row

\* Lines 542-546: the font-mapping range of one mapped prefix.
ClosePrefix(row, mappedFontFace, scale, initialIndicesCount) ==
    LET indicesCount == Len(row.glyphIndices)
    IN IF indicesCount > initialIndicesCount
       THEN AppendMapping(row, mappedFontFace, pS.font.fontSizeInDIP * scale,
                          initialIndicesCount, indicesCount)
       ELSE row

\* Lines 505-513: the glyph buffers hold at least mappedLength glyphs.
SizeForPrefix(size, mappedLength) ==
    IF mappedLength > size THEN Max(GrowSize(size), mappedLength) ELSE size

\* Line 494: mappedEnd = idx + mappedLength.
MappedEnd(idx, mappedLength) == idx + mappedLength

\* The outer loop of lines 490-547.  A loop that does not advance (a mapped
\* length or a run length of 0) asks the service the same query again; the
\* service gives the same answer, and the flush never ends: status "hang".
RECURSIVE MapLine(_, _)
MapLine(idx, st) ==
    IF idx >= Len(bufferLine) THEN {st}
    ELSE UNION {
        IF m.hr # "S_OK" THEN {Outcome("fail", Answered(st, m))}
        ELSE IF m.mappedLength = 0 THEN {Outcome("hang", Answered(st, m))}
        ELSE IF m.mappedFontFace = 0
        THEN UNION {IF o.status = "ok" THEN MapLine(MappedEnd(idx, m.mappedLength), o)
                    ELSE {o} :
                    o \in MapReplacementCharacter(idx, MappedEnd(idx, m.mappedLength),
                                                  Answered(st, m))}
        ELSE UNION {IF o.status = "ok"
                    THEN MapLine(MappedEnd(idx, m.mappedLength),
                             [o EXCEPT !.row = ClosePrefix(@, m.mappedFontFace, m.scale,
                                                           Len(st.row.glyphIndices))])
                    ELSE {o} :
                    o \in MapPrefix(idx, MappedEnd(idx, m.mappedLength),
                                    [Answered(st, m) EXCEPT
                                        !.size = SizeForPrefix(@, m.mappedLength)])}
        : m \in MapCharactersAnswers(Len(bufferLine) - idx)}

\* The row a flush appends to.  An index outside the Row Store addresses
\* memory that is not a row of the store.
FlushRowInStore == lastPaintBufferLineCoord.y < Len(rows)

\* The state a flush starts from, with the row it appends to.  The fields
\* log, answers, lookups, queries and failed are history: the segments
\* shaped, the service's answers about the staged text (of the glyph query
\* loop the last one), the resolutions of U+FFFD asked for, what the glyph
\* query loop did for each script run, and whether a resolution has ended
\* without a glyph.
FlushStart(row) ==
    [status |-> "ok", row |-> row, repl |-> replacementCharacter,
     size |-> glyphIndicesSize, oob |-> ~FlushRowInStore, log |-> <<>>,
     answers |-> <<>>,
     lookups |-> 0, queries |-> <<>>, failed |-> replacementFailed]

\* _flushBufferLine: every result the service's answers allow.  Status
\* "none" is the early return of an empty buffer, "crash" the end of the
\* process, "hang" a loop that never ends.
FlushBufferLine ==
    LET st0 == FlushStart(IF FlushRowInStore THEN rows[lastPaintBufferLineCoord.y + 1]
                          ELSE EmptyRow)
    IN IF bufferLine = <<>> THEN {Outcome("none", [st0 EXCEPT !.oob = FALSE])}
       ELSE IF Len(bufferLineColumn) # Len(bufferLine) + 1 THEN {Outcome("crash", st0)}
       ELSE {[o EXCEPT !.row.partial = @ \/ o.status = "fail"] : o \in MapLine(0, st0)}
            \cup (IF FlushRowInStore THEN {} ELSE {Outcome("crash", st0)})

\* ----------------------------------------------------- applying a flush
FlushRan(o) == o.status \in {"ok", "fail"}

RowsAfterFlush(o) ==
    IF FlushRan(o) /\ FlushRowInStore
    THEN [rows EXCEPT ![lastPaintBufferLineCoord.y + 1] = o.row]
    ELSE rows

BufferLineAfterFlush_Kept(o) == bufferLine

\* The scope_exit of lines 477-480 runs on every path past the early return.
BufferLineAfterFlush(o) == IF FlushRan(o) THEN <<>> ELSE bufferLine
BufferLineColumnAfterFlush_Kept(o) == bufferLineColumn
BufferLineColumnAfterFlush(o) == IF FlushRan(o) THEN <<>> ELSE bufferLineColumn
BufferLineOriginAfterFlush(o) == IF FlushRan(o) THEN <<>> ELSE bufferLineOrigin
LineCallsAfterFlush(o) == IF FlushRan(o) THEN <<>> ELSE lineCalls

FlushRecord(name, o) ==
    IF o.status # "none"
    THEN [ran |-> TRUE, call |-> name, status |-> o.status,
          y |-> lastPaintBufferLineCoord.y, inStore |-> FlushRowInStore,
          line |-> bufferLine, columns |-> bufferLineColumn,
          foreground |-> colorsForeground, origin |-> bufferLineOrigin,
          staged |-> lineCalls,
          attributes |-> attributes,
          replBefore |-> replacementCharacter, failedBefore |-> replacementFailed,
          repl |-> o.repl, lookups |-> o.lookups, queries |-> o.queries,
          answers |-> o.answers,
          glyphsBefore |-> IF FlushRowInStore
                           THEN Len(rows[lastPaintBufferLineCoord.y + 1].glyphIndices)
                           ELSE 0,
          mappingsBefore |-> IF FlushRowInStore
                             THEN Len(rows[lastPaintBufferLineCoord.y + 1].mappings)
                             ELSE 0,
          log |-> o.log]
    ELSE NoFlush

WithinBounds(o) == Len(o.row.glyphIndices) <= MaxGlyphs

Painting == phase = "painting" /\ ~crashed /\ calls < MaxCalls

\* The process ends inside the call: nothing returns to the caller.
CrashStep(name, y, o) ==
    /\ crashed' = TRUE
    /\ oobAccess' = TRUE
    /\ lastFlush' = FlushRecord(name, o)
    /\ lastCall' = [name |-> name, hr |-> "none", y |-> y]
    /\ UNCHANGED <<service, phase, frames, calls, apiS, pS, cellSizeDIP, invalidatedRows,
                   invalidatedCursorArea, scrollOffset, dirtyRect, cursorRect,
                   pScrollOffset, rows, backgroundBitmap, bufferLine, bufferLineColumn,
                   colorsForeground, currentColor, attributes, lastPaintBufferLineCoord,
                   replacementCharacter, lastScroll, roundTrip,
                   glyphIndicesSize, replacementFailed, bufferLineOrigin, lineCalls,
                   lastStart,
                   lastArgs>>

\* The flush inside the call never ends: nothing returns to the caller and
\* no further call is made.
HangStep(name, o) ==
    /\ phase' = "hung"
    /\ lastFlush' = FlushRecord(name, o)
    /\ lastCall' = [name |-> name, hr |-> "none", y |-> -1]
    /\ UNCHANGED <<service, frames, calls, crashed, oobAccess, apiS, pS, cellSizeDIP,
                   invalidatedRows, invalidatedCursorArea, scrollOffset, dirtyRect,
                   cursorRect, pScrollOffset, rows, backgroundBitmap, bufferLine,
                   bufferLineColumn, colorsForeground, currentColor, attributes,
                   lastPaintBufferLineCoord, replacementCharacter, lastScroll, roundTrip,
                   glyphIndicesSize, replacementFailed, bufferLineOrigin, lineCalls,
                   lastStart,
                   lastArgs>>

FailedFlushStep_KeepsLine(name, o) ==
    /\ rows' = RowsAfterFlush(o)
    /\ replacementCharacter' = o.repl
    /\ glyphIndicesSize' = o.size
    /\ replacementFailed' = o.failed
    /\ bufferLine' = bufferLine
    /\ bufferLineOrigin' = bufferLineOrigin
    /\ lineCalls' = lineCalls
    /\ bufferLineColumn' = bufferLineColumn
    /\ oobAccess' = (oobAccess \/ o.oob)
    /\ lastFlush' = FlushRecord(name, o)
    /\ lastCall' = [name |-> name, hr |-> "E_FAIL", y |-> -1]
    /\ lastScroll' = NoScroll
    /\ lastStart' = NoStart
    /\ roundTrip' = NoRoundTrip

FailedFlushStep_ReturnsSuccess(name, o) ==
    /\ rows' = RowsAfterFlush(o)
    /\ replacementCharacter' = o.repl
    /\ glyphIndicesSize' = o.size
    /\ replacementFailed' = o.failed
    /\ bufferLine' = <<>>
    /\ bufferLineOrigin' = <<>>
    /\ lineCalls' = <<>>
    /\ bufferLineColumn' = <<>>
    /\ oobAccess' = (oobAccess \/ o.oob)
    /\ lastFlush' = FlushRecord(name, o)
    /\ lastCall' = [name |-> name, hr |-> "S_OK", y |-> -1]
    /\ lastScroll' = NoScroll
    /\ lastStart' = NoStart
    /\ roundTrip' = NoRoundTrip

\* CATCH_RETURN after a flush that threw: the call returns the failure and
\* none of the statements after the flush has run.
FailedFlushStep(name, o) ==
    /\ rows' = RowsAfterFlush(o)
    /\ replacementCharacter' = o.repl
    /\ glyphIndicesSize' = o.size
    /\ replacementFailed' = o.failed
    /\ bufferLine' = <<>>
    /\ bufferLineOrigin' = <<>>
    /\ lineCalls' = <<>>
    /\ bufferLineColumn' = <<>>
    /\ oobAccess' = (oobAccess \/ o.oob)
    /\ lastFlush' = FlushRecord(name, o)
    /\ lastCall' = [name |-> name, hr |-> "E_FAIL", y |-> -1]
    /\ lastScroll' = NoScroll
    /\ lastStart' = NoStart
    /\ roundTrip' = NoRoundTrip

\* ------------------------------------------------------- api-facing side
\* The api-facing entry points (UpdateFont, SetWindowSize, Invalidate,
\* InvalidateScroll) leave their values in _api; StartPaint reads them.  A
\* caller may use them between two frames and between the calls of a frame.
RowRangeInputs ==
    {invalidatedRowsNone, invalidatedRowsAll, [x |-> 1, y |-> 2], [x |-> 2, y |-> 9]}
ScrollInputs == {-4, -2, -1, 1, 2, 4}

ApiUpdateSettings(f, c) ==
    /\ ~crashed /\ frames < MaxFrames
    /\ apiS' = [apiS EXCEPT
                   !.generation = 1 - pS.generation,
                   !.font = IF [generation |-> @.generation] @@ f = @ THEN @
                            ELSE [generation |-> 1 - pS.font.generation] @@ f,
                   !.cellCount = c]
    /\ roundTrip' = NoRoundTrip
    /\ lastFlush' = NoFlush
    /\ lastScroll' = NoScroll
    /\ lastStart' = NoStart
    /\ lastArgs' = NoArgs
    /\ UNCHANGED <<service, phase, frames, calls, crashed, oobAccess, lastCall, pS, cellSizeDIP,
                   invalidatedRows, invalidatedCursorArea, scrollOffset, dirtyRect,
                   cursorRect, pScrollOffset, rows, backgroundBitmap, bufferLine,
                   bufferLineColumn, colorsForeground, currentColor, attributes,
                   lastPaintBufferLineCoord, replacementCharacter,
                   glyphIndicesSize, replacementFailed, bufferLineOrigin,
                   lineCalls>>

ApiSetTarget(t) ==
    /\ ~crashed /\ frames < MaxFrames
    /\ apiS' = [apiS EXCEPT !.generation = 1 - pS.generation, !.target = t]
    /\ roundTrip' = NoRoundTrip
    /\ lastFlush' = NoFlush
    /\ lastScroll' = NoScroll
    /\ lastStart' = NoStart
    /\ lastArgs' = NoArgs
    /\ UNCHANGED <<service, phase, frames, calls, crashed, oobAccess, lastCall, pS, cellSizeDIP,
                   invalidatedRows, invalidatedCursorArea, scrollOffset, dirtyRect,
                   cursorRect, pScrollOffset, rows, backgroundBitmap, bufferLine,
                   bufferLineColumn, colorsForeground, currentColor, attributes,
                   lastPaintBufferLineCoord, replacementCharacter,
                   glyphIndicesSize, replacementFailed, bufferLineOrigin,
                   lineCalls>>

ApiInvalidate(r) ==
    /\ ~crashed /\ frames < MaxFrames
    /\ invalidatedRows' = r
    /\ roundTrip' = NoRoundTrip
    /\ lastFlush' = NoFlush
    /\ lastScroll' = NoScroll
    /\ lastStart' = NoStart
    /\ lastArgs' = NoArgs
    /\ UNCHANGED <<service, phase, frames, calls, crashed, oobAccess, lastCall, apiS, pS,
                   cellSizeDIP, invalidatedCursorArea, scrollOffset, dirtyRect,
                   cursorRect, pScrollOffset, rows, backgroundBitmap, bufferLine,
                   bufferLineColumn, colorsForeground, currentColor, attributes,
                   lastPaintBufferLineCoord, replacementCharacter,
                   glyphIndicesSize, replacementFailed, bufferLineOrigin,
                   lineCalls>>

ApiInvalidateScroll(delta) ==
    /\ ~crashed /\ frames < MaxFrames
    /\ scrollOffset' = delta
    /\ lastFlush' = NoFlush
    /\ lastScroll' = NoScroll
    /\ lastStart' = NoStart
    /\ lastArgs' = NoArgs
    /\ UNCHANGED <<service, phase, frames, calls, crashed, oobAccess, lastCall, apiS, pS,
                   cellSizeDIP, invalidatedRows, invalidatedCursorArea, dirtyRect,
                   cursorRect, pScrollOffset, rows, backgroundBitmap, bufferLine,
                   bufferLineColumn, colorsForeground, currentColor, attributes,
                   lastPaintBufferLineCoord, replacementCharacter, roundTrip,
                   glyphIndicesSize, replacementFailed, bufferLineOrigin,
                   lineCalls>>

\* -------------------------------------------------------------- StartPaint
\* Lines 86-87.
ClampInvalidatedRows(inv, cy) ==
    LET x == Min(inv.x, cy) IN [x |-> x, y |-> Clamp(inv.y, x, cy)]

\* Lines 80-83.
ClampInvalidatedCursorArea(a, cx, cy) ==
    LET left == Min(a.left, cx)
        top == Min(a.top, cy)
    IN [left |-> left, top |-> top, right |-> Clamp(a.right, left, cx),
        bottom |-> Clamp(a.bottom, top, cy)]

ClampScrollOffset_Unclamped(offset, cy) == offset

\* Lines 90-91.
ClampScrollOffset(offset, cy) ==
    LET limit == cy % 32768 IN Clamp(offset, -limit, limit)

ScrollInvalidatedRows_OnlyUncovered(inv, offset, cy) ==
    IF offset = 0 THEN inv
    ELSE IF offset < 0 THEN [x |-> cy + offset, y |-> cy]
    ELSE [x |-> 0, y |-> offset]

\* Lines 97, 103-105, 127-128: the dirty row range after the scroll.
ScrollInvalidatedRows(inv, offset, cy) ==
    LET nothingInvalid == inv.x = inv.y
    IN IF offset = 0 THEN inv
       ELSE IF offset < 0
       THEN LET endRow == cy + offset
            IN [x |-> IF nothingInvalid THEN endRow ELSE Min(inv.x, endRow), y |-> cy]
       ELSE [x |-> 0, y |-> IF nothingInvalid THEN offset ELSE Max(inv.y, offset)]

ScrollRows_BoundsStay(r, offset, cellHeight) ==
    LET n == Len(r)
    IN IF offset = 0 THEN r
       ELSE IF offset < 0
       THEN [i \in 1..n |->
                IF i <= n + offset THEN r[i - offset]
                ELSE IF i > -offset THEN MovedFromRow(r[i])
                ELSE r[i]]
       ELSE [i \in 1..n |->
                IF i > offset THEN r[i - offset]
                ELSE IF i <= n - offset THEN MovedFromRow(r[i])
                ELSE r[i]]

\* Lines 98-146: std::move / std::move_backward of the rows by offset rows,
\* then the pixel bounds of the relocated rows shifted by deltaPx.
ScrollRows(r, offset, cellHeight) ==
    LET n == Len(r)
        deltaPx == offset * cellHeight
    IN IF offset = 0 THEN r
       ELSE IF offset < 0
       THEN [i \in 1..n |->
                IF i <= n + offset THEN ShiftRow(r[i - offset], deltaPx)
                ELSE IF i > -offset THEN MovedFromRow(r[i])
                ELSE r[i]]
       ELSE [i \in 1..n |->
                IF i > offset THEN ShiftRow(r[i - offset], deltaPx)
                ELSE IF i <= n - offset THEN MovedFromRow(r[i])
                ELSE r[i]]

ScrollBitmap_NoMove(bitmap, offset, width) == bitmap

\* Lines 150-160: memmove of count cells from src to dst.
ScrollBitmap(bitmap, offset, width) ==
    LET dst == Max(0, offset) * width
        src == (0 - Min(0, offset)) * width
        count == Len(bitmap) - Max(src, dst)
    IN IF offset = 0 THEN bitmap
       ELSE [p \in 1..Len(bitmap) |->
                IF p > dst /\ p <= dst + count THEN bitmap[p - dst + src] ELSE bitmap[p]]

ClearInvalidatedRows_Inclusive(r, inv, cellHeight) ==
    [i \in 1..Len(r) |->
        IF inv.x <= i - 1 /\ i - 1 <= inv.y THEN ClearRow(i - 1, cellHeight) ELSE r[i]]

ClearInvalidatedRows_SparesPartial(r, inv, cellHeight) ==
    [i \in 1..Len(r) |->
        IF inv.x <= i - 1 /\ i - 1 < inv.y /\ ~r[i].partial
        THEN ClearRow(i - 1, cellHeight) ELSE r[i]]

\* Lines 163-166.
ClearInvalidatedRows(r, inv, cellHeight) ==
    [i \in 1..Len(r) |->
        IF inv.x <= i - 1 /\ i - 1 < inv.y THEN ClearRow(i - 1, cellHeight) ELSE r[i]]

\* Lines 448-451: 3 * projectedTextSize / 2 + 16.
ProjectedGlyphSize(cx) == (3 * (cx * 2)) \div 2 + 16

\* Lines 410-413.
CellSizeDIP(font) ==
    [x |-> (font.cellSize.x * USER_DEFAULT_SCREEN_DPI) \div font.dpi,
     y |-> (font.cellSize.y * USER_DEFAULT_SCREEN_DPI) \div font.dpi]

StartPaint ==
    /\ phase = "idle" /\ ~crashed /\ frames < MaxFrames
    /\ LET changed == pS.generation # apiS.generation
           fontChanged == changed /\ pS.font.generation # apiS.font.generation
           cellCountChanged == changed /\ pS.cellCount # apiS.cellCount
           cx == apiS.cellCount.x
           cy == apiS.cellCount.y
           cellHeight == apiS.font.cellSize.y
           rows1 == IF cellCountChanged THEN Repeat(EmptyRow, cy) ELSE rows
           bitmap1 == IF cellCountChanged THEN Repeat(0, cx * cy) ELSE backgroundBitmap
           inv1 == ClampInvalidatedRows(IF changed THEN invalidatedRowsAll
                                        ELSE invalidatedRows, cy)
           offset == ClampScrollOffset(scrollOffset, cy)
           inv2 == ScrollInvalidatedRows(inv1, offset, cy)
           rows2 == ScrollRows(rows1, offset, cellHeight)
           abs == IF offset < 0 THEN -offset ELSE offset
           plain == ~changed /\ inv1.x = inv1.y /\ offset # 0 /\ abs < cy
       IN /\ pS' = apiS
          /\ cellSizeDIP' = IF fontChanged THEN CellSizeDIP(apiS.font) ELSE cellSizeDIP
          /\ replacementCharacter' =
                IF fontChanged THEN [FontFace |-> 0, GlyphIndex |-> 0, LookedUp |-> FALSE]
                ELSE replacementCharacter
          /\ bufferLine' = IF cellCountChanged THEN <<>> ELSE bufferLine
          /\ bufferLineOrigin' = IF cellCountChanged THEN <<>> ELSE bufferLineOrigin
          /\ lineCalls' = IF cellCountChanged THEN <<>> ELSE lineCalls
          /\ glyphIndicesSize' = IF cellCountChanged THEN ProjectedGlyphSize(cx)
                                 ELSE glyphIndicesSize
          /\ colorsForeground' = IF cellCountChanged THEN Repeat(0, cx) ELSE colorsForeground
          /\ invalidatedCursorArea' = ClampInvalidatedCursorArea(invalidatedCursorArea, cx, cy)
          /\ invalidatedRows' = inv2
          /\ scrollOffset' = offset
          /\ rows' = ClearInvalidatedRows(rows2, inv2, cellHeight)
          /\ backgroundBitmap' = ScrollBitmap(bitmap1, offset, cx)
          /\ dirtyRect' = [left |-> 0, top |-> inv2.x, right |-> cx, bottom |-> inv2.y]
          /\ cursorRect' = EmptyRect
          /\ pScrollOffset' = offset
          /\ lastStart' = [ran |-> TRUE, changed |-> changed, fontChanged |-> fontChanged,
                            cellCountChanged |-> cellCountChanged,
                            invalidatedRows |-> invalidatedRows,
                            scrollOffset |-> scrollOffset, rows |-> rows,
                            cellCount |-> pS.cellCount]
          /\ lastScroll' = IF offset # 0
                           THEN [ran |-> TRUE, offset |-> offset, rows |-> rows1,
                                 bitmap |-> bitmap1]
                           ELSE NoScroll
          /\ roundTrip' = IF roundTrip.stage = 1 /\ plain /\ offset = -roundTrip.k
                          THEN [stage |-> 2, k |-> roundTrip.k, rows |-> roundTrip.rows]
                          ELSE IF plain THEN [stage |-> 1, k |-> offset, rows |-> rows]
                          ELSE NoRoundTrip
          /\ lastArgs' = NoArgs
    /\ phase' = "painting"
    /\ frames' = frames + 1
    /\ calls' = 0
    /\ lastCall' = [name |-> "StartPaint", hr |-> "S_OK", y |-> -1]
    /\ lastFlush' = NoFlush
    /\ UNCHANGED <<service, crashed, oobAccess, apiS, bufferLineColumn, currentColor, attributes,
                   lastPaintBufferLineCoord, replacementFailed>>

\* ---------------------------------------------------------------- EndPaint
EndPaint ==
    /\ phase = "painting" /\ ~crashed
    /\ \E o \in FlushBufferLine :
        /\ WithinBounds(o)
        /\ \/ /\ o.status = "crash"
              /\ CrashStep("EndPaint", -1, o)
           \/ /\ o.status = "hang"
              /\ HangStep("EndPaint", o)
           \/ /\ o.status = "fail"
              /\ FailedFlushStep("EndPaint", o)
              /\ lastArgs' = NoArgs
              /\ phase' = "idle"
              /\ calls' = 0
              /\ UNCHANGED <<service, frames, crashed, apiS, pS, cellSizeDIP, invalidatedRows,
                             invalidatedCursorArea, scrollOffset, dirtyRect, cursorRect,
                             pScrollOffset, backgroundBitmap, colorsForeground,
                             currentColor, attributes, lastPaintBufferLineCoord>>
           \/ /\ o.status \in {"ok", "none"}
              /\ rows' = RowsAfterFlush(o)
              /\ replacementCharacter' = o.repl
              /\ glyphIndicesSize' = o.size
              /\ replacementFailed' = o.failed
              /\ bufferLine' = <<>>
              /\ bufferLineOrigin' = <<>>
              /\ lineCalls' = <<>>
              /\ bufferLineColumn' = BufferLineColumnAfterFlush(o)
              /\ oobAccess' = (oobAccess \/ o.oob)
              /\ lastFlush' = FlushRecord("EndPaint", o)
              /\ invalidatedCursorArea' = invalidatedAreaNone
              /\ invalidatedRows' = invalidatedRowsNone
              /\ scrollOffset' = 0
              /\ lastCall' = [name |-> "EndPaint", hr |-> "S_OK", y |-> -1]
              /\ lastScroll' = NoScroll
              /\ lastStart' = NoStart
              /\ lastArgs' = NoArgs
              /\ roundTrip' = IF rows' = rows THEN roundTrip ELSE NoRoundTrip
              /\ phase' = "idle"
              /\ calls' = 0
              /\ UNCHANGED <<service, frames, crashed, apiS, pS, cellSizeDIP, dirtyRect, cursorRect,
                             pScrollOffset, backgroundBitmap, colorsForeground,
                             currentColor, attributes, lastPaintBufferLineCoord>>

\* ------------------------------------------------------------- paint calls
\* std::fill over [from, to) of a buffer: the cells that exist are written,
\* the others lie outside the buffer.
Fill(buffer, from, to, value) ==
    [p \in 1..Len(buffer) |-> IF from < p /\ p <= to THEN value ELSE buffer[p]]

\* The flush a call performs, or the flush it skips.
SkippedFlush == [FlushStart(EmptyRow) EXCEPT !.status = "none", !.oob = FALSE]
FlushIf_Never(needed) == {SkippedFlush}
FlushIf(needed) == IF needed THEN FlushBufferLine ELSE {SkippedFlush}

\* Lines 246-258: the code units and their start columns, cluster by cluster.
RECURSIVE StageClusters(_, _)
StageClusters(clusters, column) ==
    IF clusters = <<>> THEN [text |-> <<>>, columns |-> <<>>, column |-> column]
    ELSE LET c == Head(clusters)
             rest == StageClusters(Tail(clusters), column + c.columns)
         IN [text |-> c.text \o rest.text,
             columns |-> Repeat(column, Len(c.text)) \o rest.columns,
             column |-> rest.column]

NarrowCluster == [text |-> <<65>>, columns |-> 1]
WideCluster == [text |-> <<66>>, columns |-> 2]
PairCluster == [text |-> <<67, 68>>, columns |-> 1]
ClusterRuns == {<<>>, <<NarrowCluster>>, <<WideCluster>>, <<PairCluster>>,
                <<NarrowCluster, NarrowCluster>>}
\* Lines 236-239: the past-the-end column of the line staged so far is
\* dropped before the new run is staged.
PopPastTheEnd(columns) ==
    IF columns # <<>> THEN SubSeq(columns, 1, Len(columns) - 1) ELSE columns

PaintCoords == {[x |-> a, y |-> b] : a \in {-1, 1, 2}, b \in {-1, 1, 2, 3}}

PaintBufferLine(clusters, coord) ==
    /\ Painting
    /\ LET cx == pS.cellCount.x
           cy == pS.cellCount.y
           y == Clamp(coord.y, 0, cy)
           x == Clamp(coord.x, 0, cx)
       IN \E o \in FlushIf(lastPaintBufferLineCoord.y # y) :
           /\ WithinBounds(o)
           /\ LET line0 == BufferLineAfterFlush(o)
                  columns0 == BufferLineColumnAfterFlush(o)
                  columns1 == PopPastTheEnd(columns0)
                  staged == StageClusters(clusters, x)
                  outside == staged.column > Len(colorsForeground)
                                \/ y * cx + staged.column > Len(backgroundBitmap)
              IN \/ /\ o.status = "crash" \/ (FlushRan(o) /\ o.status = "ok" /\ outside)
                                          \/ (o.status = "none" /\ outside)
                    /\ CrashStep("PaintBufferLine", y, o)
                 \/ /\ o.status = "hang"
                    /\ HangStep("PaintBufferLine", o)
                 \/ /\ o.status = "fail"
                    /\ FailedFlushStep("PaintBufferLine", o)
                    /\ lastArgs' = Args("PaintBufferLine",
                                        [clusters |-> clusters, coord |-> coord])
                    /\ calls' = calls + 1
                    /\ UNCHANGED <<service, phase, frames, crashed, apiS, pS, cellSizeDIP,
                                   invalidatedRows, invalidatedCursorArea, scrollOffset,
                                   dirtyRect, cursorRect, pScrollOffset, backgroundBitmap,
                                   colorsForeground, currentColor, attributes,
                                   lastPaintBufferLineCoord>>
                 \/ /\ o.status \in {"ok", "none"}
                    /\ Len(line0) + Len(staged.text) <= MaxLine
                    /\ rows' = RowsAfterFlush(o)
                    /\ replacementCharacter' = o.repl
                    /\ glyphIndicesSize' = o.size
                    /\ replacementFailed' = o.failed
                    /\ bufferLine' = line0 \o staged.text
                    /\ bufferLineOrigin' =
                          BufferLineOriginAfterFlush(o)
                             \o Repeat([y |-> y, attributes |-> attributes],
                                       Len(staged.text))
                    /\ lineCalls' =
                          (IF FlushRan(o) \/ lastPaintBufferLineCoord.y # y
                           THEN <<>> ELSE lineCalls)
                             \o <<[x |-> x, column |-> staged.column,
                                   units |-> Len(staged.text)]>>
                    /\ bufferLineColumn' = columns1 \o staged.columns \o <<staged.column>>
                    /\ colorsForeground' =
                          Fill(colorsForeground, x, staged.column, currentColor.x)
                    /\ backgroundBitmap' =
                          Fill(backgroundBitmap, y * cx + x, y * cx + staged.column,
                               currentColor.y)
                    /\ lastPaintBufferLineCoord' = [x |-> x, y |-> y]
                    /\ oobAccess' = (oobAccess \/ o.oob \/ outside)
                    /\ lastFlush' = FlushRecord("PaintBufferLine", o)
                    /\ lastCall' = [name |-> "PaintBufferLine", hr |-> "S_OK", y |-> y]
                    /\ lastScroll' = NoScroll
                    /\ lastStart' = NoStart
                    /\ lastArgs' = Args("PaintBufferLine",
                                        [clusters |-> clusters, coord |-> coord])
                    /\ roundTrip' = IF rows' = rows THEN roundTrip ELSE NoRoundTrip
                    /\ calls' = calls + 1
                    /\ UNCHANGED <<service, phase, frames, crashed, apiS, pS, cellSizeDIP,
                                   invalidatedRows, invalidatedCursorArea, scrollOffset,
                                   dirtyRect, cursorRect, pScrollOffset, currentColor,
                                   attributes>>

GridLineInputs ==
    {[lines |-> "Bottom", color |-> 1, cchLine |-> n, coordTarget |-> [x |-> a, y |-> b]] :
        n \in {1, 3}, a \in {-2, 1}, b \in {0, 3}}

PaintBufferGridLines(in) ==
    /\ Painting
    /\ LET cx == pS.cellCount.x
           cy == pS.cellCount.y
           y == Clamp(in.coordTarget.y, 0, cy)
           from == Clamp(in.coordTarget.x, 0, cx - 1)
           \* clamp<size_t>: a negative sum is a value near 2^64
           sum == in.coordTarget.x + in.cchLine
           to == IF sum < 0 THEN cx ELSE Clamp(sum, from, cx)
           range == [lines |-> in.lines, color |-> in.color, from |-> from, to |-> to]
       IN \/ /\ y >= Len(rows)
             /\ CrashStep("PaintBufferGridLines", y, SkippedFlush)
          \/ /\ rows' = IF y < Len(rows)
                        THEN [rows EXCEPT ![y + 1].gridLineRanges = Append(@, range)]
                        ELSE rows
             /\ oobAccess' = (oobAccess \/ y >= Len(rows))
             /\ lastCall' = [name |-> "PaintBufferGridLines", hr |-> "S_OK", y |-> y]
             /\ lastFlush' = NoFlush
             /\ lastScroll' = NoScroll
             /\ lastStart' = NoStart
             /\ lastArgs' = Args("PaintBufferGridLines", in)
             /\ roundTrip' = IF rows' = rows THEN roundTrip ELSE NoRoundTrip
             /\ calls' = calls + 1
             /\ UNCHANGED <<service, phase, frames, crashed, apiS, pS, cellSizeDIP, invalidatedRows,
                            invalidatedCursorArea, scrollOffset, dirtyRect, cursorRect,
                            pScrollOffset, backgroundBitmap, bufferLine, bufferLineColumn,
                            colorsForeground, currentColor, attributes,
                            lastPaintBufferLineCoord, replacementCharacter,
                            glyphIndicesSize, replacementFailed, bufferLineOrigin,
                   lineCalls>>

\* til::rect: empty(), operator|.
RectEmpty(r) == ~(r.left < r.right /\ r.top < r.bottom)
RectUnion(a, b) ==
    IF RectEmpty(a) /\ RectEmpty(b) THEN EmptyRect
    ELSE IF RectEmpty(b) THEN a
    ELSE IF RectEmpty(a) THEN b
    ELSE [left |-> Min(a.left, b.left), top |-> Min(a.top, b.top),
          right |-> Max(a.right, b.right), bottom |-> Max(a.bottom, b.bottom)]

SelectionInputs ==
    {[left |-> 0, top |-> 1, right |-> 2, bottom |-> 2],
     [left |-> -1, top |-> 3, right |-> 5, bottom |-> 4],
     [left |-> -1, top |-> 1, right |-> 5, bottom |-> 2]}

PaintSelection(rect) ==
    /\ Painting
    /\ LET cx == pS.cellCount.x
           cy == pS.cellCount.y
           y == Clamp(rect.top, 0, cy)
           from == Clamp(rect.left, 0, cx - 1)
           to == Clamp(rect.right, from, cx)
       IN \E o \in FlushBufferLine :
           /\ WithinBounds(o)
           /\ \/ /\ o.status = "crash" \/ (o.status # "fail" /\ y >= Len(rows))
                 /\ CrashStep("PaintSelection", y, o)
              \/ /\ o.status = "hang"
                 /\ HangStep("PaintSelection", o)
              \/ /\ o.status = "fail"
                 /\ FailedFlushStep("PaintSelection", o)
                 /\ lastArgs' = Args("PaintSelection", rect)
                 /\ calls' = calls + 1
                 /\ UNCHANGED <<service, phase, frames, crashed, apiS, pS, cellSizeDIP,
                                invalidatedRows, invalidatedCursorArea, scrollOffset,
                                dirtyRect, cursorRect, pScrollOffset, backgroundBitmap,
                                colorsForeground, currentColor, attributes,
                                lastPaintBufferLineCoord>>
              \/ /\ o.status \in {"ok", "none"}
                 /\ rows' = IF y < Len(rows)
                            THEN [RowsAfterFlush(o) EXCEPT ![y + 1].selectionFrom = from,
                                                           ![y + 1].selectionTo = to]
                            ELSE RowsAfterFlush(o)
                 /\ dirtyRect' = RectUnion(dirtyRect, rect)
                 /\ replacementCharacter' = o.repl
                 /\ glyphIndicesSize' = o.size
                 /\ replacementFailed' = o.failed
                 /\ bufferLine' = BufferLineAfterFlush(o)
                 /\ bufferLineOrigin' = BufferLineOriginAfterFlush(o)
                 /\ lineCalls' = LineCallsAfterFlush(o)
                 /\ bufferLineColumn' = BufferLineColumnAfterFlush(o)
                 /\ oobAccess' = (oobAccess \/ o.oob \/ y >= Len(rows))
                 /\ lastFlush' = FlushRecord("PaintSelection", o)
                 /\ lastCall' = [name |-> "PaintSelection", hr |-> "S_OK", y |-> y]
                 /\ lastArgs' = Args("PaintSelection", rect)
                 /\ lastScroll' = NoScroll
                 /\ lastStart' = NoStart
                 /\ roundTrip' = IF rows' = rows THEN roundTrip ELSE NoRoundTrip
                 /\ calls' = calls + 1
                 /\ UNCHANGED <<service, phase, frames, crashed, apiS, pS, cellSizeDIP,
                                invalidatedRows, invalidatedCursorArea, scrollOffset,
                                cursorRect, pScrollOffset, backgroundBitmap,
                                colorsForeground, currentColor, attributes,
                                lastPaintBufferLineCoord>>

CursorInputs ==
    {[isOn |-> b, coordCursor |-> c, fIsDoubleWidth |-> TRUE, cursorType |-> "FullBox",
      fUseColor |-> FALSE, cursorColor |-> 0, ulCursorHeightPercent |-> 25] :
        b \in BOOLEAN, c \in {[x |-> 0, y |-> 0], [x |-> 5, y |-> 5]}}

CommitCursor_FromProposed(cachedOptions) == [apiS EXCEPT !.cursor = cachedOptions]

\* Line 321: *_p.s.write()->cursor.write() = cachedOptions
CommitCursor(cachedOptions) ==
    [pS EXCEPT !.generation = 1 - @, !.cursor = cachedOptions]

CursorRectOf_Unclamped(options, cx, cy) ==
    LET cursorWidth == 1 + (IF options.fIsDoubleWidth
                               /\ options.cursorType # "VerticalBar" THEN 1 ELSE 0)
    IN [left |-> options.coordCursor.x, top |-> options.coordCursor.y,
        right |-> options.coordCursor.x + cursorWidth,
        bottom |-> options.coordCursor.y + 1]

\* Lines 335-340: the cell or the two cells of the cursor.
CursorRectOf(options, cx, cy) ==
    LET x == Clamp(options.coordCursor.x, 0, cx - 1)
        y == Clamp(options.coordCursor.y, 0, cy - 1)
        cursorWidth == 1 + (IF options.fIsDoubleWidth
                               /\ options.cursorType # "VerticalBar" THEN 1 ELSE 0)
        right == Clamp(x + cursorWidth, 0, cx)
        bottom == y + 1
    IN [left |-> x, top |-> y, right |-> right, bottom |-> bottom]

PaintCursor(options) ==
    /\ Painting
    /\ LET cx == pS.cellCount.x
           cy == pS.cellCount.y
           cachedOptions ==
               [cursorColor |-> IF options.fUseColor THEN options.cursorColor
                                ELSE "INVALID_COLOR",
                cursorType |-> options.cursorType,
                heightPercentage |-> options.ulCursorHeightPercent]
           write == apiS.cursor # cachedOptions
           r == invalidatedCursorArea
           dirty1 == IF r.left < r.right /\ r.top < r.bottom
                     THEN RectUnion(dirtyRect, r) ELSE dirtyRect
           rect == CursorRectOf(options, cx, cy)
       IN \E o \in FlushBufferLine :
           /\ WithinBounds(o)
           /\ \/ /\ o.status = "crash"
                 /\ CrashStep("PaintCursor", -1, o)
              \/ /\ o.status = "hang"
                 /\ HangStep("PaintCursor", o)
              \/ /\ o.status = "fail"
                 /\ FailedFlushStep("PaintCursor", o)
                 /\ lastArgs' = Args("PaintCursor", options)
                 /\ calls' = calls + 1
                 /\ UNCHANGED <<service, phase, frames, crashed, apiS, pS, cellSizeDIP,
                                invalidatedRows, invalidatedCursorArea, scrollOffset,
                                dirtyRect, cursorRect, pScrollOffset, backgroundBitmap,
                                colorsForeground, currentColor, attributes,
                                lastPaintBufferLineCoord>>
              \/ /\ o.status \in {"ok", "none"}
                 /\ apiS' = IF write
                            THEN [apiS EXCEPT !.generation = 1 - @,
                                              !.cursor = cachedOptions]
                            ELSE apiS
                 /\ pS' = IF write THEN CommitCursor(cachedOptions) ELSE pS
                 /\ cursorRect' = IF options.isOn THEN rect ELSE cursorRect
                 /\ dirtyRect' = IF options.isOn THEN RectUnion(dirty1, rect) ELSE dirty1
                 /\ rows' = RowsAfterFlush(o)
                 /\ replacementCharacter' = o.repl
                 /\ glyphIndicesSize' = o.size
                 /\ replacementFailed' = o.failed
                 /\ bufferLine' = BufferLineAfterFlush(o)
                 /\ bufferLineOrigin' = BufferLineOriginAfterFlush(o)
                 /\ lineCalls' = LineCallsAfterFlush(o)
                 /\ bufferLineColumn' = BufferLineColumnAfterFlush(o)
                 /\ oobAccess' = (oobAccess \/ o.oob)
                 /\ lastFlush' = FlushRecord("PaintCursor", o)
                 /\ lastCall' = [name |-> "PaintCursor", hr |-> "S_OK", y |-> -1]
                 /\ lastArgs' = Args("PaintCursor", options)
                 /\ lastScroll' = NoScroll
                 /\ lastStart' = NoStart
                 /\ roundTrip' = IF rows' = rows THEN roundTrip ELSE NoRoundTrip
                 /\ calls' = calls + 1
                 /\ UNCHANGED <<service, phase, frames, crashed, cellSizeDIP, invalidatedRows,
                                invalidatedCursorArea, scrollOffset, pScrollOffset,
                                backgroundBitmap, colorsForeground, currentColor,
                                attributes, lastPaintBufferLineCoord>>

\* fg and bg are the colors GetAttributeColorsWithAlpha returns, made opaque.
BrushInputs ==
    {[fg |-> 1, bg |-> 1, bold |-> FALSE, italic |-> FALSE,
      isSettingDefaultBrushes |-> FALSE, backgroundIsDefault |-> FALSE],
     [fg |-> 2, bg |-> 2, bold |-> TRUE, italic |-> FALSE,
      isSettingDefaultBrushes |-> FALSE, backgroundIsDefault |-> FALSE],
     [fg |-> 1, bg |-> 1, bold |-> FALSE, italic |-> FALSE,
      isSettingDefaultBrushes |-> TRUE, backgroundIsDefault |-> TRUE]}

UpdateDrawingBrushes(in) ==
    /\ Painting
    /\ LET newAttributes == [bold |-> in.bold, italic |-> in.italic]
           write == in.isSettingDefaultBrushes /\ in.backgroundIsDefault
                       /\ in.bg # apiS.misc.backgroundColor
       IN \E o \in FlushIf(~in.isSettingDefaultBrushes /\ attributes # newAttributes) :
           /\ WithinBounds(o)
           /\ \/ /\ o.status = "crash"
                 /\ CrashStep("UpdateDrawingBrushes", -1, o)
              \/ /\ o.status = "hang"
                 /\ HangStep("UpdateDrawingBrushes", o)
              \/ /\ o.status = "fail"
                 /\ FailedFlushStep("UpdateDrawingBrushes", o)
                 /\ lastArgs' = Args("UpdateDrawingBrushes", in)
                 /\ calls' = calls + 1
                 /\ UNCHANGED <<service, phase, frames, crashed, apiS, pS, cellSizeDIP,
                                invalidatedRows, invalidatedCursorArea, scrollOffset,
                                dirtyRect, cursorRect, pScrollOffset, backgroundBitmap,
                                colorsForeground, currentColor, attributes,
                                lastPaintBufferLineCoord>>
              \/ /\ o.status \in {"ok", "none"}
                 /\ currentColor' = IF in.isSettingDefaultBrushes THEN currentColor
                                    ELSE [x |-> in.fg, y |-> in.bg]
                 /\ attributes' = IF in.isSettingDefaultBrushes THEN attributes
                                  ELSE newAttributes
                 /\ apiS' = IF write
                            THEN [apiS EXCEPT !.generation = 1 - @,
                                              !.misc.backgroundColor = in.bg]
                            ELSE apiS
                 /\ pS' = IF write
                          THEN [pS EXCEPT !.generation = 1 - @,
                                          !.misc.backgroundColor = in.bg]
                          ELSE pS
                 /\ rows' = RowsAfterFlush(o)
                 /\ replacementCharacter' = o.repl
                 /\ glyphIndicesSize' = o.size
                 /\ replacementFailed' = o.failed
                 /\ bufferLine' = BufferLineAfterFlush(o)
                 /\ bufferLineOrigin' = BufferLineOriginAfterFlush(o)
                 /\ lineCalls' = LineCallsAfterFlush(o)
                 /\ bufferLineColumn' = BufferLineColumnAfterFlush(o)
                 /\ oobAccess' = (oobAccess \/ o.oob)
                 /\ lastFlush' = FlushRecord("UpdateDrawingBrushes", o)
                 /\ lastCall' = [name |-> "UpdateDrawingBrushes", hr |-> "S_OK", y |-> -1]
                 /\ lastArgs' = Args("UpdateDrawingBrushes", in)
                 /\ lastScroll' = NoScroll
                 /\ lastStart' = NoStart
                 /\ roundTrip' = IF rows' = rows THEN roundTrip ELSE NoRoundTrip
                 /\ calls' = calls + 1
                 /\ UNCHANGED <<service, phase, frames, crashed, cellSizeDIP, invalidatedRows,
                                invalidatedCursorArea, scrollOffset, dirtyRect, cursorRect,
                                pScrollOffset, backgroundBitmap, colorsForeground,
                                lastPaintBufferLineCoord>>

\* -------------------------------------------------------------------- Init
Init ==
    /\ service \in {"any", "base", "scarce", "missing", "stalling"}
    /\ phase = "idle"
    /\ frames = 0
    /\ calls = 0
    /\ crashed = FALSE
    /\ oobAccess = FALSE
    /\ lastCall = [name |-> "AtlasEngine", hr |-> "S_OK", y |-> -1]
    /\ pS = InitialSettings
    /\ apiS \in ConfiguredSettings
    /\ cellSizeDIP = [x |-> 0, y |-> 0]
    /\ invalidatedRows = invalidatedRowsNone
    /\ invalidatedCursorArea = invalidatedAreaNone
    /\ scrollOffset = 0
    /\ dirtyRect = EmptyRect
    /\ cursorRect = EmptyRect
    /\ pScrollOffset = 0
    /\ rows = <<>>
    /\ backgroundBitmap = <<>>
    /\ bufferLine = <<>>
    /\ bufferLineOrigin = <<>>
    /\ lineCalls = <<>>
    /\ bufferLineColumn = <<>>
    /\ colorsForeground = <<>>
    /\ currentColor = [x |-> 0, y |-> 0]
    /\ attributes = [bold |-> FALSE, italic |-> FALSE]
    /\ lastPaintBufferLineCoord = [x |-> 0, y |-> 0]
    /\ replacementCharacter = [FontFace |-> 0, GlyphIndex |-> 0, LookedUp |-> FALSE]
    /\ glyphIndicesSize = 0
    /\ lastFlush = NoFlush
    /\ lastScroll = NoScroll
    /\ lastStart = NoStart
    /\ lastArgs = NoArgs
    /\ replacementFailed = FALSE
    /\ roundTrip = NoRoundTrip

Next ==
    \/ \E f \in Fonts, c \in CellCounts : ApiUpdateSettings(f, c)
    \/ \E t \in Targets : ApiSetTarget(t)
    \/ \E r \in RowRangeInputs : ApiInvalidate(r)
    \/ \E delta \in ScrollInputs : ApiInvalidateScroll(delta)
    \/ StartPaint
    \/ \E clusters \in ClusterRuns, coord \in PaintCoords : PaintBufferLine(clusters, coord)
    \/ \E in \in GridLineInputs : PaintBufferGridLines(in)
    \/ \E rect \in SelectionInputs : PaintSelection(rect)
    \/ \E options \in CursorInputs : PaintCursor(options)
    \/ \E in \in BrushInputs : UpdateDrawingBrushes(in)
    \/ EndPaint

Spec == Init /\ [][Next]_vars

\* ------------------------------------------------------------- scenarios
\* One frame of paint calls against a service that may answer anything.
ShapeLineInputs ==
    {[clusters |-> <<NarrowCluster>>, coord |-> [x |-> 0, y |-> 0]],
     [clusters |-> <<PairCluster>>, coord |-> [x |-> 0, y |-> 0]],
     [clusters |-> <<NarrowCluster, NarrowCluster>>, coord |-> [x |-> 0, y |-> 1]],
     [clusters |-> <<WideCluster>>, coord |-> [x |-> 0, y |-> 1]],
     [clusters |-> <<NarrowCluster>>, coord |-> [x |-> 1, y |-> 0]],
     [clusters |-> <<NarrowCluster>>, coord |-> [x |-> -1, y |-> 1]],
     [clusters |-> <<NarrowCluster>>, coord |-> [x |-> 0, y |-> 3]]}

ShapeGridLineInputs == {in \in GridLineInputs : in.cchLine = 1 /\ in.coordTarget.x = 1}
ShapeCursorInputs == {o \in CursorInputs : o.isOn /\ o.coordCursor.y = 0}

InitShape ==
    /\ Init
    /\ service = "any"
    /\ apiS = [generation |-> 1, font |-> [generation |-> 1] @@ Font2,
               cellCount |-> [x |-> 2, y |-> 2], cursor |-> DefaultCursor,
               misc |-> [backgroundColor |-> 0], target |-> 0]

NextShape ==
    \/ frames = 0 /\ StartPaint
    \/ \E in \in ShapeLineInputs : PaintBufferLine(in.clusters, in.coord)
    \/ \E in \in ShapeGridLineInputs : PaintBufferGridLines(in)
    \/ \E rect \in SelectionInputs : PaintSelection(rect)
    \/ \E options \in ShapeCursorInputs : PaintCursor(options)
    \/ \E in \in BrushInputs : UpdateDrawingBrushes(in)
    \/ EndPaint

SpecShape == InitShape /\ [][NextShape]_vars

\* A first frame that paints text the base font covers, then frames that
\* only scroll and invalidate.
ScrollLineInputs ==
    {[clusters |-> <<NarrowCluster>>, coord |-> [x |-> 0, y |-> 0]],
     [clusters |-> <<WideCluster>>, coord |-> [x |-> 0, y |-> 1]],
     [clusters |-> <<NarrowCluster>>, coord |-> [x |-> 1, y |-> 2]]}
ScrollRowRangeInputs == {invalidatedRowsAll, [x |-> 1, y |-> 2], [x |-> 2, y |-> 9]}
ScrollOffsetInputs == {-4, -1, 1, 2}
ScrollSelectionInputs == {[left |-> 0, top |-> 1, right |-> 2, bottom |-> 2]}

InitScroll ==
    /\ Init
    /\ service = "base"
    /\ apiS = [generation |-> 1, font |-> [generation |-> 1] @@ Font1,
               cellCount |-> [x |-> 2, y |-> 3], cursor |-> DefaultCursor,
               misc |-> [backgroundColor |-> 0], target |-> 0]

NextScroll ==
    \/ phase = "idle" /\ \E r \in ScrollRowRangeInputs : ApiInvalidate(r)
    \/ phase = "idle" /\ \E delta \in ScrollOffsetInputs : ApiInvalidateScroll(delta)
    \/ StartPaint
    \/ frames = 1 /\ \E in \in ScrollLineInputs : PaintBufferLine(in.clusters, in.coord)
    \/ frames = 1 /\ \E in \in BrushInputs : UpdateDrawingBrushes(in)
    \/ frames = 1 /\ \E rect \in ScrollSelectionInputs : PaintSelection(rect)
    \/ frames = 1 /\ \E options \in ShapeCursorInputs : PaintCursor(options)
    \/ EndPaint

SpecScroll == InitScroll /\ [][NextScroll]_vars

\* Frames between and during which the api-facing side is reconfigured,
\* scrolled and invalidated.
ResizeLineInputs ==
    {[clusters |-> <<NarrowCluster>>, coord |-> [x |-> 0, y |-> 0]],
     [clusters |-> <<WideCluster>>, coord |-> [x |-> 0, y |-> 1]]}
ResizeRowRangeInputs == {[x |-> 1, y |-> 2]}
ResizeOffsetInputs == {-1, 1}
ResizeCursorInputs == {o \in CursorInputs : o.isOn /\ o.coordCursor.y = 0}

InitResize ==
    /\ Init
    /\ service = "base"
    /\ apiS = [generation |-> 1, font |-> [generation |-> 1] @@ Font1,
               cellCount |-> [x |-> 2, y |-> 3], cursor |-> DefaultCursor,
               misc |-> [backgroundColor |-> 0], target |-> 0]

NextResize ==
    \/ \E f \in Fonts, c \in CellCounts : ApiUpdateSettings(f, c)
    \/ \E t \in Targets : ApiSetTarget(t)
    \/ \E r \in ResizeRowRangeInputs : ApiInvalidate(r)
    \/ \E delta \in ResizeOffsetInputs : ApiInvalidateScroll(delta)
    \/ StartPaint
    \/ frames = 1 /\ \E in \in ResizeLineInputs : PaintBufferLine(in.clusters, in.coord)
    \/ frames = 1 /\ \E options \in ResizeCursorInputs : PaintCursor(options)
    \/ EndPaint

SpecResize == InitResize /\ [][NextResize]_vars

\* One frame that stages lines and flushes them, against a service that may
\* answer anything or one that may find the glyph capacity insufficient.
TwiceLineInputs ==
    {[clusters |-> <<NarrowCluster>>, coord |-> [x |-> 0, y |-> 0]],
     [clusters |-> <<PairCluster>>, coord |-> [x |-> 0, y |-> 0]],
     [clusters |-> <<WideCluster>>, coord |-> [x |-> 0, y |-> 1]]}

InitTwice ==
    /\ Init
    /\ service \in {"any", "scarce"}
    /\ apiS = [generation |-> 1, font |-> [generation |-> 1] @@ Font2,
               cellCount |-> [x |-> 2, y |-> 2], cursor |-> DefaultCursor,
               misc |-> [backgroundColor |-> 0], target |-> 0]

NextTwice ==
    \/ frames = 0 /\ StartPaint
    \/ \E in \in TwiceLineInputs : PaintBufferLine(in.clusters, in.coord)
    \/ EndPaint

SpecTwice == InitTwice /\ [][NextTwice]_vars

\* Frames that stage text no font covers, with font changes between them.
FallbackLineInputs ==
    {[clusters |-> <<NarrowCluster>>, coord |-> [x |-> 0, y |-> 0]],
     [clusters |-> <<NarrowCluster>>, coord |-> [x |-> 1, y |-> 0]],
     [clusters |-> <<WideCluster>>, coord |-> [x |-> 0, y |-> 1]]}
FallbackBrushInputs == {in \in BrushInputs : ~in.isSettingDefaultBrushes /\ ~in.bold}
FallbackCellCounts == {[x |-> 2, y |-> 2]}

InitFallback ==
    /\ Init
    /\ service = "missing"
    /\ apiS = [generation |-> 1, font |-> [generation |-> 1] @@ Font1,
               cellCount |-> [x |-> 2, y |-> 2], cursor |-> DefaultCursor,
               misc |-> [backgroundColor |-> 0], target |-> 0]

NextFallback ==
    \/ phase = "idle" /\ \E f \in Fonts, c \in FallbackCellCounts : ApiUpdateSettings(f, c)
    \/ StartPaint
    \/ \E in \in FallbackLineInputs : PaintBufferLine(in.clusters, in.coord)
    \/ \E in \in FallbackBrushInputs : UpdateDrawingBrushes(in)
    \/ EndPaint

SpecFallback == InitFallback /\ [][NextFallback]_vars

\* One frame on a grid of three columns: runs on one row with a column
\* between them, a run that reaches past the last column, a call without
\* clusters, and a change of the color pair.
LineInputs ==
    {[clusters |-> <<>>, coord |-> [x |-> 0, y |-> 0]],
     [clusters |-> <<NarrowCluster>>, coord |-> [x |-> 0, y |-> 0]],
     [clusters |-> <<NarrowCluster>>, coord |-> [x |-> 2, y |-> 0]],
     [clusters |-> <<WideCluster>>, coord |-> [x |-> 2, y |-> 0]],
     [clusters |-> <<NarrowCluster>>, coord |-> [x |-> 0, y |-> 1]]}

InitLine ==
    /\ Init
    /\ service \in {"any", "stalling"}
    /\ apiS = [generation |-> 1, font |-> [generation |-> 1] @@ Font2,
               cellCount |-> LineCellCount, cursor |-> DefaultCursor,
               misc |-> [backgroundColor |-> 0], target |-> 0]

NextLine ==
    \/ frames = 0 /\ StartPaint
    \/ \E in \in LineInputs : PaintBufferLine(in.clusters, in.coord)
    \/ \E in \in FallbackBrushInputs : UpdateDrawingBrushes(in)
    \/ EndPaint

SpecLine == InitLine /\ [][NextLine]_vars

\* Two frames that decorate: cursors and grid lines at positions inside and
\* outside a grid of three columns and two rows, after text that the flush
\* at the start of PaintCursor shapes or fails to shape.  The first frame
\* commits the settings and paints nothing; the second starts with no row
\* dirty.
DecorFrames == 2
DecorLineInputs == {[clusters |-> <<NarrowCluster>>, coord |-> [x |-> 0, y |-> 0]]}
DecorCursorInputs ==
    {[isOn |-> b, coordCursor |-> c, fIsDoubleWidth |-> d, cursorType |-> t,
      fUseColor |-> FALSE, cursorColor |-> 0, ulCursorHeightPercent |-> 25] :
        b \in BOOLEAN, d \in BOOLEAN, t \in {"FullBox", "VerticalBar"},
        c \in {[x |-> -1, y |-> -1], [x |-> 0, y |-> 0], [x |-> 2, y |-> 1],
               [x |-> 5, y |-> 5]}}
DecorGridLineInputs ==
    {[lines |-> "Bottom", color |-> 1, cchLine |-> n, coordTarget |-> [x |-> a, y |-> b]] :
        n \in {0, 1, 3}, a \in {-4, -2, 0, 1, 2, 5}, b \in {0, 1}}

InitDecor ==
    /\ Init
    /\ service = "base"
    /\ apiS = [generation |-> 1, font |-> [generation |-> 1] @@ Font1,
               cellCount |-> LineCellCount, cursor |-> DefaultCursor,
               misc |-> [backgroundColor |-> 0], target |-> 0]

NextDecor ==
    \/ frames < DecorFrames /\ StartPaint
    \/ frames = DecorFrames
          /\ \E in \in DecorLineInputs : PaintBufferLine(in.clusters, in.coord)
    \/ frames = DecorFrames /\ \E in \in DecorGridLineInputs : PaintBufferGridLines(in)
    \/ frames = DecorFrames /\ \E options \in DecorCursorInputs : PaintCursor(options)
    \/ EndPaint

SpecDecor == InitDecor /\ [][NextDecor]_vars

\* ------------------------------------------------------------- properties
\* The row the last flush appended to, once the call that flushed has
\* returned, and the columns the flush read.
FlushedRow == rows[lastFlush.y + 1]
FlushReturned == ~crashed /\ lastFlush.ran /\ lastFlush.inStore
FlushColumn(i) == lastFlush.columns[i + 1]
AdvanceSum(from, to) == SumSeq(SubSeq(FlushedRow.glyphAdvances, from + 1, to))

\* C1: at every call boundary, after calls that succeeded and calls that
\* failed alike, the glyph-index, glyph-advance, glyph-offset and color
\* sequences of every row have the same length.
C1_SequencesEqualLength ==
    \A i \in 1..Len(rows) :
        /\ Len(rows[i].glyphAdvances) = Len(rows[i].glyphIndices)
        /\ Len(rows[i].glyphOffsets) = Len(rows[i].glyphIndices)
        /\ Len(rows[i].colors) = Len(rows[i].glyphIndices)

\* A flush that shaped a complex run into its row and then failed.
C1_FailedAfterComplexRun ==
    /\ FlushReturned /\ lastFlush.status = "fail"
    /\ Len(FlushedRow.glyphIndices) > lastFlush.glyphsBefore
    /\ \E k \in 1..Len(lastFlush.log) : lastFlush.log[k].kind = "complex"

Partitions(row) ==
    LET m == row.mappings
        n == Len(m)
    IN /\ n = 0 => Len(row.glyphIndices) = 0
       /\ n > 0 => m[1].glyphsFrom = 0 /\ m[n].glyphsTo = Len(row.glyphIndices)
       /\ \A k \in 1..n : m[k].glyphsFrom <= m[k].glyphsTo
       /\ \A k \in 1..(n - 1) : m[k + 1].glyphsFrom = m[k].glyphsTo

\* C2: in a row that only flushes without failure have appended to since it
\* was cleared, the font-mapping ranges are in increasing order, the first
\* starts at 0, each starts where the previous ends and the last ends at the
\* glyph count.
C2_MappingsPartition ==
    \A i \in 1..Len(rows) : ~rows[i].partial => Partitions(rows[i])

\* A second flush into a row that already had a mapping added another one.
C2_SecondFlushIntoRow ==
    /\ FlushReturned /\ lastFlush.status = "ok"
    /\ ~FlushedRow.partial
    /\ lastFlush.mappingsBefore >= 1
    /\ Len(FlushedRow.mappings) > lastFlush.mappingsBefore

\* C3: a segment reported as simple gets one glyph per code unit, and the
\* advances of those glyphs sum to the segment's column span times the cell
\* width.
C3_SimpleSegmentAdvances ==
    FlushReturned =>
        \A k \in 1..Len(lastFlush.log) :
            LET e == lastFlush.log[k]
            IN e.kind = "simple" =>
                  /\ e.g1 - e.g0 = e.len
                  /\ AdvanceSum(e.g0, e.g1) =
                        (FlushColumn(e.idx + e.len) - FlushColumn(e.idx)) * cellSizeDIP.x

\* A simple segment whose column span differs from its number of code units.
C3_SimpleSegmentOfOtherWidth ==
    /\ FlushReturned
    /\ \E k \in 1..Len(lastFlush.log) :
          LET e == lastFlush.log[k]
          IN /\ e.kind = "simple"
             /\ FlushColumn(e.idx + e.len) - FlushColumn(e.idx) # e.len
             /\ FlushColumn(e.idx + e.len) - FlushColumn(e.idx) > 0

\* The code units (1-based, within the run) at which a cluster starts, and
\* the code unit after the cluster that starts at b.
ClusterStarts(cm) == {b \in 1..Len(cm) : b = 1 \/ cm[b] # cm[b - 1]}
ClusterEnd(cm, b) ==
    LET later == {e \in (b + 1)..Len(cm) : cm[e] # cm[b]}
    IN IF later = {} THEN Len(cm) + 1
       ELSE CHOOSE e \in later : \A f \in later : e <= f

\* C4: for every cluster of a complex run, the advances of the cluster's
\* glyphs in the row sum to (start column of the next cluster - start column
\* of this cluster) times the cell width.
C4_ClusterAdvances ==
    FlushReturned =>
        \A k \in 1..Len(lastFlush.log) :
            LET e == lastFlush.log[k]
                cm == e.clusterMap
            IN e.kind = "complex" =>
                  \A b \in ClusterStarts(cm) :
                      LET end == ClusterEnd(cm, b)
                          g == IF end <= Len(cm) THEN cm[end] ELSE e.g1 - e.g0
                      IN AdvanceSum(e.g0 + cm[b], e.g0 + g) =
                            (FlushColumn(e.idx + end - 1) - FlushColumn(e.idx + b - 1))
                                * cellSizeDIP.x

\* A complex run of two clusters and three glyphs.
C4_TwoClustersThreeGlyphs ==
    /\ FlushReturned
    /\ \E k \in 1..Len(lastFlush.log) :
          LET e == lastFlush.log[k]
          IN /\ e.kind = "complex" /\ e.len = 2
             /\ e.clusterMap[1] # e.clusterMap[2]
             /\ e.g1 - e.g0 = 3

\* C5: the row index that PaintBufferLine, PaintBufferGridLines,
\* PaintSelection and the flush address the Row Store and the bitmap with
\* lies in [0, cellCount.y).
C5_RowIndexInGrid ==
    /\ lastCall.y # -1 => 0 <= lastCall.y /\ lastCall.y < pS.cellCount.y
    /\ lastFlush.ran => 0 <= lastFlush.y /\ lastFlush.y < pS.cellCount.y

\* C6: a staged character without a font face, whose replacement character
\* has no font face or no glyph index either, makes the flush neither crash
\* nor add a glyph or a font-mapping range.
C6_UnresolvedAddsNothing ==
    lastFlush.ran =>
        /\ \A k \in 1..Len(lastFlush.log) :
              lastFlush.log[k].kind = "unresolved" =>
                  /\ lastFlush.status # "crash"
                  /\ lastFlush.log[k].g0 = lastFlush.log[k].g1
        /\ (/\ FlushReturned
            /\ \A k \in 1..Len(lastFlush.log) : lastFlush.log[k].kind = "unresolved")
              => Len(FlushedRow.mappings) = lastFlush.mappingsBefore

\* C7: a service failure during a flush makes the call that flushed return
\* the failure, with the process alive and the Line Staging Buffer empty;
\* the frames after it start and end with success.
C7_FailureIsContained ==
    /\ ~crashed
    /\ (lastFlush.ran /\ lastFlush.status = "fail")
          => lastCall.hr = "E_FAIL" /\ lastCall.name = lastFlush.call
    /\ lastCall.hr = "E_FAIL" => bufferLine = <<>> /\ bufferLineColumn = <<>>
    /\ bufferLine # <<>> => Len(bufferLineColumn) = Len(bufferLine) + 1
    /\ lastCall.name = "StartPaint" => lastCall.hr = "S_OK"
    /\ (frames > 1 /\ lastCall.name = "EndPaint") => lastCall.hr = "S_OK"

\* A frame that ended with success after an earlier call's flush failed.
C7_FrameAfterFailure ==
    /\ frames > 1 /\ phase = "idle"
    /\ lastCall.name = "EndPaint" /\ lastCall.hr = "S_OK"
    /\ \E i \in 1..Len(rows) : rows[i].partial

\* C8: when EndPaint returns, with whatever status, the dirty row range and
\* the dirty cursor area are none and the scroll offset is 0.
C8_EndPaintResets ==
    [][(phase = "painting" /\ phase' = "idle")
          => /\ invalidatedRows' = invalidatedRowsNone
             /\ invalidatedCursorArea' = invalidatedAreaNone
             /\ scrollOffset' = 0]_vars

\* C9: after a scroll by k and a scroll by -k, with nothing shaped,
\* invalidated or reconfigured in between, every row outside the rows the
\* second StartPaint left dirty is the row it was before the first scroll.
C9_ScrollRoundTrip ==
    (roundTrip.stage = 2 /\ phase = "painting" /\ lastCall.name = "StartPaint") =>
        \A i \in 1..Len(rows) :
            ~(invalidatedRows.x <= i - 1 /\ i - 1 < invalidatedRows.y)
                => rows[i] = roundTrip.rows[i]

\* A round trip that brought a row with glyphs back.
C9_RowWithGlyphsRestored ==
    /\ roundTrip.stage = 2 /\ phase = "painting" /\ lastCall.name = "StartPaint"
    /\ \E i \in 1..Len(rows) :
          /\ ~(invalidatedRows.x <= i - 1 /\ i - 1 < invalidatedRows.y)
          /\ rows[i].glyphIndices # <<>>

\* C10: StartPaint with the clamped scroll offset d leaves, at every row i
\* outside the final dirty row range, the pre-scroll row i - d with top and
\* bottom shifted by d * cellHeight, and at every bitmap row i with i - d in
\* the grid the pre-scroll bitmap row i - d.
C10_ScrollRelocates ==
    lastScroll.ran =>
        LET d == lastScroll.offset
            h == pS.font.cellSize.y
            cx == pS.cellCount.x
            cy == pS.cellCount.y
        IN /\ d = scrollOffset /\ -cy <= d /\ d <= cy
           /\ \A i \in 0..(cy - 1) :
                 ~(invalidatedRows.x <= i /\ i < invalidatedRows.y) =>
                     rows[i + 1] = [lastScroll.rows[i - d + 1] EXCEPT
                                       !.top = @ + d * h, !.bottom = @ + d * h]
           /\ \A i \in 0..(cy - 1) :
                 (0 <= i - d /\ i - d < cy) =>
                     \A c \in 1..cx :
                         backgroundBitmap[i * cx + c] = lastScroll.bitmap[(i - d) * cx + c]

\* A scroll that relocated a row with glyphs and a painted bitmap row.
C10_RelocatedPaintedRow ==
    /\ lastScroll.ran
    /\ \E i \in 0..(pS.cellCount.y - 1) :
          /\ ~(invalidatedRows.x <= i /\ i < invalidatedRows.y)
          /\ rows[i + 1].glyphIndices # <<>>
          /\ \E c \in 1..pS.cellCount.x : backgroundBitmap[i * pS.cellCount.x + c] # 0

\* The state StartPaint has just left behind.
Started == lastStart.ran /\ phase = "painting" /\ lastCall.name = "StartPaint"

\* C11: a StartPaint that finds proposed cell-grid dimensions other than the
\* committed ones leaves a Row Store of cellCount.y rows, a bitmap of
\* cellCount.x * cellCount.y cells, the dirty row range [0, cellCount.y) and
\* every row empty, whether or not a scroll offset was pending.
C11_ResizeRebuilds ==
    (Started /\ lastStart.cellCount # pS.cellCount) =>
        /\ Len(rows) = pS.cellCount.y
        /\ Len(backgroundBitmap) = pS.cellCount.x * pS.cellCount.y
        /\ invalidatedRows = [x |-> 0, y |-> pS.cellCount.y]
        /\ \A i \in 1..Len(rows) : rows[i] = ClearRow(i - 1, pS.font.cellSize.y)

\* A resize with a scroll pending, of a Row Store that held glyphs.
C11_ResizeWithScrollPending ==
    /\ Started /\ lastStart.cellCount # pS.cellCount
    /\ lastStart.scrollOffset # 0
    /\ \E i \in 1..Len(lastStart.rows) : lastStart.rows[i].glyphIndices # <<>>

\* C12: a StartPaint that finds the proposed snapshot equal to the committed
\* one and no scroll offset clears exactly the rows of the requested dirty
\* range that lie in the grid; every other row keeps its shaped content and
\* its pixel bounds.
C12_ClearsRequestedRows ==
    (Started /\ ~lastStart.changed /\ lastStart.scrollOffset = 0) =>
        /\ Len(rows) = Len(lastStart.rows)
        /\ \A i \in 0..(Len(rows) - 1) :
              rows[i + 1] =
                 IF /\ lastStart.invalidatedRows.x <= i /\ i < lastStart.invalidatedRows.y
                    /\ i < pS.cellCount.y
                 THEN ClearRow(i, pS.font.cellSize.y)
                 ELSE lastStart.rows[i + 1]

\* A requested range that cleared a row with glyphs and spared another.
C12_ClearedOneKeptOne ==
    /\ Started /\ ~lastStart.changed /\ lastStart.scrollOffset = 0
    /\ \E i, j \in 1..Len(rows) :
          /\ lastStart.rows[i].glyphIndices # <<>> /\ rows[i].glyphIndices = <<>>
          /\ rows[j].glyphIndices # <<>>

\* The row and the style key the staged code units wait for.
StagedFor(y, key) == [y |-> y, attributes |-> key]

\* C13: the staged code units were all staged for the row and under the
\* bold/italic style key the next flush will use, and every flush shaped
\* code units of one row and one style key into that row under that key: a
\* PaintBufferLine for another row and an UpdateDrawingBrushes with another
\* style key flush before they accept the new row, style or text.
C13_OneRowOneStyle ==
    /\ Len(bufferLineOrigin) = Len(bufferLine)
    /\ \A k \in 1..Len(bufferLineOrigin) :
          bufferLineOrigin[k] = StagedFor(lastPaintBufferLineCoord.y, attributes)
    /\ lastFlush.ran =>
          \A k \in 1..Len(lastFlush.origin) :
              lastFlush.origin[k] = StagedFor(lastFlush.y, lastFlush.attributes)

\* A PaintBufferLine for another row flushed bold text into the old row and
\* then staged its own text.
C13_FlushedBeforeNewRow ==
    /\ lastFlush.ran /\ lastFlush.call = "PaintBufferLine" /\ ~crashed
    /\ lastFlush.attributes.bold
    /\ lastFlush.y # lastPaintBufferLineCoord.y
    /\ bufferLine # <<>>

\* What a flush appends to a row.
RowContent(row) ==
    [mappings |-> row.mappings, glyphIndices |-> row.glyphIndices,
     glyphAdvances |-> row.glyphAdvances, glyphOffsets |-> row.glyphOffsets,
     colors |-> row.colors]

\* The flushes of the staged line into a cleared row that return, starting
\* with the given replacement cache and glyph capacity and reading only
\* inside colorsForeground.
ShapeCleared(repl, size) ==
    {o \in MapLine(0, [FlushStart(EmptyRow) EXCEPT !.repl = repl, !.size = size,
                                                   !.oob = FALSE]) :
        o.status = "ok" /\ ~o.oob}

Staged == bufferLine # <<>> /\ Len(bufferLineColumn) = Len(bufferLine) + 1

\* C14: shaping the staged line into a cleared row, and shaping it again
\* into a cleared row with the replacement cache and the glyph capacity the
\* first shaping left, under the same committed snapshot and with the same
\* answers of the service about the line, yields the same row content.
C14_ShapingRepeats ==
    Staged =>
        LET firsts == ShapeCleared(replacementCharacter, glyphIndicesSize)
        IN \A c \in {[repl |-> o.repl, size |-> o.size] : o \in firsts} :
              \A o1 \in {o \in firsts : o.repl = c.repl /\ o.size = c.size},
                 o2 \in ShapeCleared(c.repl, c.size) :
                  o2.answers = o1.answers => RowContent(o2.row) = RowContent(o1.row)

\* A staged line whose first shaping resolves the replacement character and
\* emits it, and whose second shaping takes it from the cache.
C14_SecondUsesCache ==
    /\ Staged
    /\ \E o1 \in ShapeCleared(replacementCharacter, glyphIndicesSize) :
          /\ o1.lookups = 1
          /\ \E k \in 1..Len(o1.log) : o1.log[k].kind = "replacement"
                                        /\ o1.log[k].g1 > o1.log[k].g0
          /\ \E o2 \in ShapeCleared(o1.repl, o1.size) :
                o2.lookups = 0 /\ o2.answers = o1.answers

\* The flush record f shows no resolution of U+FFFD asked for and nothing
\* emitted by the replacement fallback.
FallbackSilent(f) ==
    /\ f.lookups = 0
    /\ \A k \in 1..Len(f.log) :
          /\ f.log[k].kind # "replacement"
          /\ f.log[k].kind = "unresolved" => f.log[k].g0 = f.log[k].g1

\* C15 as stated: once a resolution of the replacement character has ended
\* without a glyph, no later flush of the session asks the service to
\* resolve it again, and the fallback emits nothing.
C15_DisabledForSession ==
    (lastFlush.ran /\ lastFlush.failedBefore) => FallbackSilent(lastFlush)

\* C15, amended: while the cache holds a resolution that ended without a
\* glyph, every step other than a StartPaint that finds the font changed
\* leaves the cache as it is, and a flush in it asks for no resolution and
\* emits nothing through the fallback.
C15_DisabledUntilFontChange ==
    [][(/\ replacementCharacter.LookedUp /\ replacementCharacter.FontFace = 0
        /\ ~(lastStart'.ran /\ lastStart'.fontChanged))
          => /\ replacementCharacter' = replacementCharacter
             /\ lastFlush'.ran => FallbackSilent(lastFlush')]_vars

\* A flush of a later frame met the failed resolution of an earlier frame.
C15_SilentInLaterFrame ==
    /\ frames >= 2 /\ ~crashed
    /\ lastFlush.ran /\ lastFlush.failedBefore
    /\ lastFlush.replBefore.LookedUp /\ lastFlush.replBefore.FontFace = 0
    /\ \E k \in 1..Len(lastFlush.log) : lastFlush.log[k].kind = "unresolved"
    /\ \E i \in 1..Len(rows) : rows[i].top # 0 /\ rows[i].glyphIndices = <<>>

\* The replacement segments of the last flush, by position in its log.
ReplacementEntries == {k \in 1..Len(lastFlush.log) : lastFlush.log[k].kind = "replacement"}
OnlyFallback ==
    \A k \in 1..Len(lastFlush.log) : lastFlush.log[k].kind \in {"replacement", "unresolved"}

\* C16: with the replacement character resolved, a prefix without a font
\* face that covers the columns [c0, c1) appends c1 - c0 glyphs, each with
\* the cached replacement glyph index, an advance of one cell width, a zero
\* offset and the foreground color of its column, and one font-mapping
\* range of the replacement font face over exactly those glyphs.
C16_ReplacementGlyphs ==
    FlushReturned =>
        /\ \A k \in ReplacementEntries :
              LET e == lastFlush.log[k]
                  c0 == FlushColumn(e.idx)
                  c1 == FlushColumn(e.idx + e.len)
              IN /\ e.g1 - e.g0 = c1 - c0
                 /\ \A j \in 1..(c1 - c0) :
                       /\ FlushedRow.glyphIndices[e.g0 + j] = lastFlush.repl.GlyphIndex
                       /\ FlushedRow.glyphAdvances[e.g0 + j] = cellSizeDIP.x
                       /\ FlushedRow.glyphOffsets[e.g0 + j] = ZeroOffset
                       /\ c0 + j <= Len(lastFlush.foreground)
                             => FlushedRow.colors[e.g0 + j] = lastFlush.foreground[c0 + j]
                 /\ \E m \in 1..Len(FlushedRow.mappings) :
                       /\ FlushedRow.mappings[m].fontFace = lastFlush.repl.FontFace
                       /\ FlushedRow.mappings[m].glyphsFrom = e.g0
                       /\ FlushedRow.mappings[m].glyphsTo = e.g1
        /\ OnlyFallback =>
              Len(FlushedRow.mappings) =
                 lastFlush.mappingsBefore + Cardinality(ReplacementEntries)

\* A prefix of two columns with two foreground colors got two replacement
\* glyphs.
C16_TwoColumnsTwoColors ==
    /\ FlushReturned
    /\ \E k \in ReplacementEntries :
          LET e == lastFlush.log[k]
          IN /\ e.g1 - e.g0 = 2
             /\ FlushedRow.colors[e.g0 + 1] # FlushedRow.colors[e.g0 + 2]

\* The glyph query loops of the last flush: at most 8 queries each, and a
\* loop whose last query still reports insufficient capacity has made 8
\* queries and makes the call that flushed return a failure.
RetriesBounded ==
    \A k \in 1..Len(lastFlush.queries) :
        LET r == lastFlush.queries[k]
        IN /\ Len(r.sizes) <= GetGlyphsRetryLimit
           /\ r.hr = "ERROR_INSUFFICIENT_BUFFER" =>
                 /\ Len(r.sizes) = GetGlyphsRetryLimit
                 /\ lastFlush.status = "fail"
                 /\ lastCall.name = lastFlush.call /\ lastCall.hr = "E_FAIL"

C18_CommittedOnlyAtStartPaint ==
    [][frames' = frames
          => /\ pS'.target = pS.target
             /\ pS'.font = pS.font
             /\ pS'.cellCount = pS.cellCount
             /\ cellSizeDIP' = cellSizeDIP
             /\ Len(rows') = Len(rows)
             /\ Len(backgroundBitmap') = Len(backgroundBitmap)]_vars

\* A paint call flushed text after the api-facing side had proposed another
\* target, font and cell count during the frame.
C18_PaintedAfterProposal ==
    /\ phase = "painting" /\ ~crashed
    /\ lastFlush.ran /\ lastCall.hr = "S_OK"
    /\ apiS.target # pS.target
    /\ apiS.font # pS.font
    /\ apiS.cellCount # pS.cellCount
    /\ scrollOffset # pScrollOffset

\* C19: between StartPaint and EndPaint the accumulated dirty rect lies in
\* the grid, whatever selection rect, cursor position and cursor area the
\* caller supplied: 0 <= left <= right <= cellCount.x and
\* 0 <= top <= bottom <= cellCount.y.  Stated for the frames in which no
\* access has left a buffer.
C19_DirtyRectInGrid ==
    (phase = "painting" /\ ~oobAccess) =>
        /\ 0 <= dirtyRect.left /\ dirtyRect.left <= dirtyRect.right
        /\ dirtyRect.right <= pS.cellCount.x
        /\ 0 <= dirtyRect.top /\ dirtyRect.top <= dirtyRect.bottom
        /\ dirtyRect.bottom <= pS.cellCount.y

\* The rows of the grid a StartPaint had to repaint: the rows of the requested
\* range that lie in the grid (every row when the proposed snapshot differed
\* from the committed one, line 405) and the rows the scroll offset, limited
\* to the grid's height, uncovered.
RequestedRows ==
    {i \in 0..(pS.cellCount.y - 1) :
        \/ lastStart.changed
        \/ lastStart.invalidatedRows.x <= i /\ i < lastStart.invalidatedRows.y}

UncoveredRows ==
    LET cy == pS.cellCount.y
        d == Max(-cy, Min(cy, lastStart.scrollOffset))
    IN {i \in 0..(cy - 1) : (d < 0 /\ cy + d <= i) \/ (d > 0 /\ i < d)}

\* C20: after StartPaint the dirty row range [x, y) has
\* 0 <= x <= y <= cellCount.y and is the smallest contiguous range that
\* contains the requested rows of the grid and the rows the limited scroll
\* offset uncovered; it is empty when there is no such row.
C20_SmallestCoveringRange ==
    Started =>
        LET needed == RequestedRows \cup UncoveredRows
        IN /\ 0 <= invalidatedRows.x /\ invalidatedRows.x <= invalidatedRows.y
           /\ invalidatedRows.y <= pS.cellCount.y
           /\ IF needed = {} THEN invalidatedRows.x = invalidatedRows.y
              ELSE /\ \A i \in needed : invalidatedRows.x <= i
                   /\ invalidatedRows.x \in needed
                   /\ \A i \in needed : i < invalidatedRows.y
                   /\ invalidatedRows.y - 1 \in needed

\* A requested range that reached past the grid and a scroll that uncovered
\* a row apart from it: the range covers a row neither of them named.
C20_CoversRowBetween ==
    /\ Started /\ ~lastStart.changed
    /\ lastStart.invalidatedRows.y > pS.cellCount.y
    /\ RequestedRows # {} /\ UncoveredRows # {}
    /\ \E i \in 0..(pS.cellCount.y - 1) :
          /\ i \notin RequestedRows \cup UncoveredRows
          /\ invalidatedRows.x <= i /\ i < invalidatedRows.y

\* The sequences of a row that hold what was shaped and decorated.
RowSequences(row) ==
    <<row.glyphIndices, row.glyphAdvances, row.glyphOffsets, row.colors, row.mappings,
      row.gridLineRanges>>

\* C21: when StartPaint has returned, every row inside the final dirty row
\* range has empty glyph, advance, offset, color, font-mapping and grid-line
\* sequences, whatever the row held before.
C21_DirtyRowsEmptied ==
    Started =>
        \A i \in 0..(Len(rows) - 1) :
            (invalidatedRows.x <= i /\ i < invalidatedRows.y) =>
                RowSequences(rows[i + 1]) = <<<<>>, <<>>, <<>>, <<>>, <<>>, <<>>>>

\* A row that a failed flush of an earlier frame had left with glyphs lies
\* in the dirty row range of this StartPaint.
C21_PartialRowCleared ==
    /\ Started /\ ~lastStart.changed
    /\ \E i \in 0..(Len(rows) - 1) :
          /\ invalidatedRows.x <= i /\ i < invalidatedRows.y
          /\ Len(lastStart.rows) = Len(rows)
          /\ lastStart.rows[i + 1].partial
          /\ lastStart.rows[i + 1].glyphIndices # <<>>

\* A paint call of the given name has just returned.
Returned(name) == lastCall'.name = name /\ calls' = calls + 1 /\ ~crashed'

\* The columns the clusters of a run cover.
RunColumns(clusters) == StageClusters(clusters, 0).column

\* C22: a PaintBufferLine that returns success at the clamped position
\* (row y, column x) with a run of w columns sets the bitmap cells
\* (y, x) .. (y, x + w - 1) to the active background color and the
\* foreground entries x .. x + w - 1 to the active foreground color, and
\* leaves every other cell of both buffers as it was.
C22_FillsOnlyTheRun ==
    [][(Returned("PaintBufferLine") /\ lastCall'.hr = "S_OK") =>
          LET in == lastArgs'.in
              cx == pS.cellCount.x
              y == Clamp(in.coord.y, 0, pS.cellCount.y)
              x == Clamp(in.coord.x, 0, cx)
              w == RunColumns(in.clusters)
          IN /\ Len(backgroundBitmap') = Len(backgroundBitmap)
             /\ \A r \in 0..(pS.cellCount.y - 1), c \in 0..(cx - 1) :
                   backgroundBitmap'[r * cx + c + 1] =
                       IF r = y /\ x <= c /\ c <= x + w - 1 THEN currentColor.y
                       ELSE backgroundBitmap[r * cx + c + 1]
             /\ Len(colorsForeground') = Len(colorsForeground)
             /\ \A c \in 0..(cx - 1) :
                   colorsForeground'[c + 1] =
                       IF x <= c /\ c <= x + w - 1 THEN currentColor.x
                       ELSE colorsForeground[c + 1]]_vars

\* The starting column PaintBufferLine gives the first code unit of a run.
RunStart(coord) == Clamp(coord.x, 0, pS.cellCount.x)

C24_MappingsNonEmpty ==
    \A i \in 1..Len(rows) :
        \A k \in 1..Len(rows[i].mappings) :
            rows[i].mappings[k].glyphsFrom < rows[i].mappings[k].glyphsTo

\* Every answer of the service to a mapping query maps at least one code
\* unit and every answer to a complexity query covers at least one.
AnswersAdvance(answers) ==
    \A k \in 1..Len(answers) :
        LET a == answers[k]
        IN a.hr = "S_OK" =>
              /\ "mappedLength" \in DOMAIN a => a.mappedLength >= 1
              /\ "complexityLength" \in DOMAIN a => a.complexityLength >= 1

\* The segments the flush shaped, replaced or left without a glyph follow
\* one another from code unit 0 to the end of the line.
ProcessedOnceInOrder(f) ==
    /\ f.log # <<>>
    /\ f.log[1].idx = 0
    /\ \A k \in 1..Len(f.log) : f.log[k].len >= 1
    /\ \A k \in 1..(Len(f.log) - 1) : f.log[k + 1].idx = f.log[k].idx + f.log[k].len
    /\ f.log[Len(f.log)].idx + f.log[Len(f.log)].len = Len(f.line)

\* Every mapping query and every complexity query about the staged text was
\* answered, with a length of at least 1.
AnswersAllAdvance(answers) ==
    \A k \in 1..Len(answers) :
        LET a == answers[k]
        IN /\ "mappedLength" \in DOMAIN a => a.hr = "S_OK" /\ a.mappedLength >= 1
           /\ "complexityLength" \in DOMAIN a => a.hr = "S_OK" /\ a.complexityLength >= 1

\* C25 as stated: a flush whose mapping queries were answered with a mapped
\* length of at least 1 and whose complexity queries with a run length of at
\* least 1 has processed every staged code unit exactly once and in order
\* when it ends.  (Flushes that ended the process and flushes that asked for
\* U+FFFD are left aside.)
C25_ProcessesEveryUnit ==
    (/\ lastFlush.ran /\ AnswersAllAdvance(lastFlush.answers)
     /\ lastFlush.status # "crash" /\ lastFlush.lookups = 0) =>
        lastFlush.status # "hang" /\ ProcessedOnceInOrder(lastFlush)

\* C25, amended: a flush whose mapping answers map at least one code unit
\* and whose complexity answers cover at least one comes to an end; if no
\* query failed it has processed every staged code unit exactly once and in
\* order; and the call returns with the staged line gone from the buffer.
C25_FlushDrains ==
    (lastFlush.ran /\ AnswersAdvance(lastFlush.answers)) =>
        /\ lastFlush.status # "hang"
        /\ lastFlush.status = "ok" => ProcessedOnceInOrder(lastFlush)
        /\ (lastFlush.status \in {"ok", "fail"} /\ ~crashed) =>
              bufferLine =
                 IF lastCall.name = "PaintBufferLine" /\ lastCall.hr = "S_OK"
                 THEN StageClusters(lastArgs.in.clusters, 0).text
                 ELSE <<>>

\* A flush of two code units that the service mapped as two prefixes.
C25_TwoPrefixes ==
    /\ lastFlush.ran /\ lastFlush.status = "ok" /\ ~crashed
    /\ Len(lastFlush.line) = 2
    /\ Len(lastFlush.log) = 2
    /\ Cardinality({k \in 1..Len(lastFlush.answers) :
                       "mappedLength" \in DOMAIN lastFlush.answers[k]}) = 2

\* A flush that never ended after an answer of length 0.
FlushHung == lastFlush.ran /\ lastFlush.status = "hang"

\* The cursor rect lies in the grid, is one row high and one or two columns
\* wide, two only for a double-width cursor that is not a vertical bar and
\* has a column to its right, and the dirty rect contains it.
CursorRectAsClaimed(options) ==
    LET width == cursorRect.right - cursorRect.left
    IN /\ 0 <= cursorRect.left /\ cursorRect.right <= pS.cellCount.x
       /\ 0 <= cursorRect.top /\ cursorRect.bottom <= pS.cellCount.y
       /\ cursorRect.bottom - cursorRect.top = 1
       /\ width \in {1, 2}
       /\ width = 2 <=> /\ options.fIsDoubleWidth
                        /\ options.cursorType # "VerticalBar"
                        /\ cursorRect.left + 1 < pS.cellCount.x
       /\ dirtyRect.left <= cursorRect.left /\ cursorRect.right <= dirtyRect.right
       /\ dirtyRect.top <= cursorRect.top /\ cursorRect.bottom <= dirtyRect.bottom

\* A PaintCursor with the cursor on has just come back to its caller.
CursorPainted ==
    /\ lastCall.name = "PaintCursor" /\ lastArgs.name = "PaintCursor"
    /\ phase = "painting" /\ ~crashed
    /\ lastArgs.in.isOn

\* C26 as stated: PaintCursor with the cursor on returns success for any
\* position and records a cursor rect as described.
C26_CursorAlwaysSucceeds ==
    CursorPainted => lastCall.hr = "S_OK" /\ CursorRectAsClaimed(lastArgs.in)

\* C26, amended: PaintCursor with the cursor on returns a failure only when
\* the flush it starts with failed, whatever the position; when it returns
\* success it has recorded a cursor rect as described.
C26_CursorRectClamped ==
    CursorPainted =>
        /\ lastCall.hr # "S_OK" => lastFlush.ran /\ lastFlush.status = "fail"
        /\ lastCall.hr = "S_OK" => CursorRectAsClaimed(lastArgs.in)

\* A double-width cursor asked for at a position right of and below the
\* grid was recorded in the last cell, one column wide.
C26_CursorOutsideGrid ==
    /\ CursorPainted /\ lastCall.hr = "S_OK"
    /\ dirtyRect = cursorRect
    /\ lastArgs.in.coordCursor.x >= pS.cellCount.x
    /\ lastArgs.in.coordCursor.y >= pS.cellCount.y
    /\ lastArgs.in.fIsDoubleWidth /\ lastArgs.in.cursorType = "FullBox"
    /\ cursorRect = [left |-> pS.cellCount.x - 1, top |-> pS.cellCount.y - 1,
                     right |-> pS.cellCount.x, bottom |-> pS.cellCount.y]

\* A PaintBufferGridLines has just come back to its caller, having appended
\* a range to a row of the grid.
GridLinesPainted ==
    /\ lastCall.name = "PaintBufferGridLines" /\ lastArgs.name = "PaintBufferGridLines"
    /\ phase = "painting" /\ ~crashed
    /\ lastCall.y < Len(rows)

\* The range appended by the last PaintBufferGridLines.
LastGridLineRange ==
    LET ranges == rows[lastCall.y + 1].gridLineRanges
    IN ranges[Len(ranges)]

\* C27: the range appended by PaintBufferGridLines is the part of the
\* requested span [coord.x, coord.x + cchLine) that lies inside the columns
\* [0, cellCount.x): 0 <= colStart <= colEnd <= cellCount.x, and the range
\* is empty when the span lies wholly left or right of the grid.
C27_GridLineRangeIsSpanInGrid ==
    GridLinesPainted =>
        LET cx == pS.cellCount.x
            lo == Max(lastArgs.in.coordTarget.x, 0)
            hi == Min(lastArgs.in.coordTarget.x + lastArgs.in.cchLine, cx)
            r == LastGridLineRange
        IN /\ 0 <= r.from /\ r.from <= r.to /\ r.to <= cx
           /\ IF lo < hi THEN r.from = lo /\ r.to = hi ELSE r.from = r.to

\* The bounds alone: every appended range satisfies
\* 0 <= colStart <= colEnd <= cellCount.x.
GridLineRangeBounds ==
    GridLinesPainted =>
        /\ 0 <= LastGridLineRange.from /\ LastGridLineRange.from <= LastGridLineRange.to
        /\ LastGridLineRange.to <= pS.cellCount.x

\* Spans that overlap the grid are cut to it.
GridLineOverlapCut ==
    GridLinesPainted =>
        LET lo == Max(lastArgs.in.coordTarget.x, 0)
            hi == Min(lastArgs.in.coordTarget.x + lastArgs.in.cchLine, pS.cellCount.x)
        IN lo < hi => LastGridLineRange.from = lo /\ LastGridLineRange.to = hi

\* The pixel bounds of every row follow from its index.
RowBoundsByIndex ==
    /\ Len(rows) = pS.cellCount.y
    /\ \A i \in 1..Len(rows) :
          /\ rows[i].top = (i - 1) * pS.font.cellSize.y
          /\ rows[i].bottom = i * pS.font.cellSize.y

\* C28: after every StartPaint that returns success, row i has the pixel
\* bounds top = i * cellHeight and bottom = (i + 1) * cellHeight, whatever
\* scroll offsets, dirty ranges, font changes and grid resizes came before.
C28_RowBoundsFollowIndex ==
    (Started /\ lastCall.hr = "S_OK" /\ ~crashed) => RowBoundsByIndex

\* A scroll relocated a row that holds glyphs to another index, outside the
\* dirty row range, in a frame after the first.
C28_RelocatedRowBounds ==
    /\ Started /\ lastCall.hr = "S_OK" /\ ~crashed
    /\ frames > 1 /\ lastScroll.ran
    /\ \E i \in 1..Len(rows) :
          /\ ~(invalidatedRows.x <= i - 1 /\ i - 1 < invalidatedRows.y)
          /\ rows[i].glyphIndices # <<>>
          /\ rows[i].top = (i - 1) * pS.font.cellSize.y
          /\ lastStart.rows[i - lastScroll.offset].top = rows[i].top - lastScroll.offset * pS.font.cellSize.y

\* The last flush shaped, without a failure, a line staged by several
\* PaintBufferLine calls with start columns that never decrease, and every
\* code unit got a font or the replacement character.
SeveralCallsFlushed ==
    /\ FlushReturned /\ lastFlush.status = "ok"
    /\ Len(lastFlush.staged) >= 2
    /\ \A k \in 1..(Len(lastFlush.staged) - 1) :
          lastFlush.staged[k].x <= lastFlush.staged[k + 1].x
    /\ \A k \in 1..Len(lastFlush.log) : lastFlush.log[k].kind # "unresolved"

\* The sum of the advances of the glyphs the last flush appended.
FlushedAdvanceSum == AdvanceSum(lastFlush.glyphsBefore, Len(FlushedRow.glyphIndices))

AdvancesSpanAfterEmptyCall ==
    (SeveralCallsFlushed /\ lastFlush.staged[1].units = 0) =>
        FlushedAdvanceSum =
            (lastFlush.staged[Len(lastFlush.staged)].column - lastFlush.staged[1].x)
                * cellSizeDIP.x

\* The calls that begin with a flush of the staged line.
FlushingCalls == {"PaintBufferLine", "UpdateDrawingBrushes", "PaintSelection", "PaintCursor"}

\* A step in which one of these calls ran its flush, the flush failed and
\* the call came back to its caller.
FlushFailedInCall ==
    /\ calls' = calls + 1 /\ ~crashed'
    /\ lastCall'.name \in FlushingCalls
    /\ lastFlush'.ran /\ lastFlush'.status = "fail" /\ lastFlush'.call = lastCall'.name

\* What PaintSelection and PaintBufferGridLines record in the rows.
RowMarks(r) ==
    [i \in 1..Len(r) |->
        [selectionFrom |-> r[i].selectionFrom, selectionTo |-> r[i].selectionTo,
         gridLineRanges |-> r[i].gridLineRanges]]

\* C30: when the flush at the start of PaintBufferLine, UpdateDrawingBrushes,
\* PaintSelection or PaintCursor fails, the call returns the failure and
\* applies nothing of its own: no run is staged, no bitmap or foreground
\* cell is written, the style key and the color pair stay, and no selection
\* range, cursor setting, cursor rect or dirty rect is recorded.
C30_FailedFlushAppliesNothing ==
    [][FlushFailedInCall =>
          /\ lastCall'.hr = "E_FAIL"
          /\ bufferLine' = <<>> /\ bufferLineColumn' = <<>>
          /\ backgroundBitmap' = backgroundBitmap
          /\ colorsForeground' = colorsForeground
          /\ lastPaintBufferLineCoord' = lastPaintBufferLineCoord
          /\ attributes' = attributes /\ currentColor' = currentColor
          /\ RowMarks(rows') = RowMarks(rows)
          /\ apiS' = apiS /\ pS' = pS
          /\ cursorRect' = cursorRect /\ dirtyRect' = dirtyRect]_vars

\* A PaintBufferLine for another row came back with a failure: its run of
\* clusters is not staged and the bitmap holds no cell of its color.
C30_RunNotStaged ==
    /\ lastCall.name = "PaintBufferLine" /\ lastCall.hr = "E_FAIL" /\ ~crashed
    /\ lastFlush.ran /\ lastFlush.status = "fail" /\ lastFlush.call = "PaintBufferLine"
    /\ lastArgs.name = "PaintBufferLine" /\ lastArgs.in.clusters # <<>>
    /\ bufferLine = <<>>
    /\ currentColor.y # 0
    /\ \A p \in 1..Len(backgroundBitmap) :
          \/ (p > lastFlush.y * pS.cellCount.x /\ p <= (lastFlush.y + 1) * pS.cellCount.x)
          \/ backgroundBitmap[p] # currentColor.y

====
